---------------------------- MODULE Spec2Model ----------------------------
(***************************************************************************)
(* A model of the five Ising-model Monte Carlo programs of bit-player/MCMC *)
(*                                                                         *)
(*   Program 1  src/pgm1_metro_v_glauber/metro_v_glauber.js                *)
(*   Program 2  src/unnamed/part_000      (mix and match)                  *)
(*   Program 3  src/unnamed/part_001      (visitation variations)          *)
(*   Program 4  src/pgm4_boundaries/boundaries.js                          *)
(*   Program 5  src/pgm5_microscope/microscope.js                          *)
(*                                                                         *)
(* Every program is a single-threaded browser script: a handler (a button, *)
(* a radio button, a timer callback) runs to completion before the next    *)
(* one starts.  The variable pgm says which program a behaviour is about;  *)
(* the variables a program does not own keep the value NA.                 *)
(*                                                                         *)
(* Numbers.  Math.random() is a value k/DrawDen with k in 0..DrawDen-1,    *)
(* held as its numerator k.  A temperature is held as an index t: t >= 1   *)
(* stands for the temperature T with e^(2/T) = t+1, so that                *)
(* exp(-deltaE/T) = (t+1)^(-deltaE/2) is an exact rational for every even  *)
(* deltaE; t = ColdTemp stands for a positive temperature so small         *)
(* (0.01, say) that exp(8/T) overflows IEEE doubles and exp(-8/T)          *)
(* underflows to 0.  A double is a record [tag, n, d]: "fin" is the        *)
(* rational n/d, "max" is Number.MAX_VALUE, "inf" is Infinity, "nan" NaN.  *)
(***************************************************************************)
EXTENDS Integers, Sequences, FiniteSets, TLC

VARIABLES
    pgm,               \* which program the behaviour runs ("P1".."P5", "fn")
    op,                \* history: the handler or function that took the last step
    gridSize,          \* const gridSize of the running program
    lattice,           \* lattice[x][y], as a function on <<x, y>>
    temperature,       \* let temperature (an index, see above)
    state,             \* let state
    timer,             \* let timer (Programs 1-4): NoTimer or the callback it fires
    runTimer,          \* let runTimer (Program 5)
    macrostepTimer,    \* let macrostepTimer (Program 5)
    algorithm,         \* let algorithm (Programs 1, 3, 4)
    visitSeq,          \* let visitSeq (Program 5)
    visitationFn,      \* let visitationFn (Program 2)
    acceptanceFn,      \* let acceptanceFn (Programs 2, 5)
    boundaryRule,      \* let boundaryRule (Program 4)
    thePermutation,    \* let thePermutation (Programs 3, 5), a sequence of 0..N-1
    XYiterator,        \* let XYiterator (Program 5): the generator object
    visitedArray,      \* let visitedArray (Program 5)
    toBeFlippedArray,  \* let toBeFlippedArray (Program 5)
    shadowLattice,     \* let shadowLattice (Program 3)
    initPattern,       \* let initPattern (Program 5)
    doodleFlag,        \* let doodleFlag (Program 5)
    pc,                \* position inside the sweep function that is running
    args,              \* the inputs of the function under study (function harnesses)
    result             \* what it returned

vars == <<pgm, op, gridSize, lattice, temperature, state, timer, runTimer,
          macrostepTimer, algorithm, visitSeq, visitationFn, acceptanceFn, boundaryRule,
          thePermutation, XYiterator, visitedArray, toBeFlippedArray,
          shadowLattice, initPattern, doodleFlag, pc, args, result>>

NA == "NA"
NoTimer == "none"

-----------------------------------------------------------------------------
(* Bounds of the model *)

MaxGrid == 3          \* toroidal lattices of side 1..MaxGrid are enumerated
MaxSeqGrid == 4       \* visitation sequences are generated for sides 1..MaxSeqGrid
MaxFreeDraws == 3     \* period of a stream of random draws
MaxTemp == 2          \* ordinary temperature indices 1..MaxTemp
DrawDen == 8          \* Math.random() returns k/DrawDen, k in 0..DrawDen-1
BigNum == 4096        \* stands for a finite double above 2^53 (and 1/BigNum below 2^-53)

Draws == 0 .. (DrawDen - 1)
ColdTemp == MaxTemp + 1
Temps == 1 .. ColdTemp
EvenDeltas == {-8, -6, -4, -2, 0, 2, 4, 6, 8}

-----------------------------------------------------------------------------
(* IEEE doubles, as far as the acceptance rules use them *)

RECURSIVE Pow(_, _)
Pow(b, e) == IF e = 0 THEN 1 ELSE b * Pow(b, e - 1)

Fin(n, d) == [tag |-> "fin", n |-> n, d |-> d]
MAX_VALUE == [tag |-> "max", n |-> 0, d |-> 1]
Infinity == [tag |-> "inf", n |-> 0, d |-> 1]
NaN == [tag |-> "nan", n |-> 0, d |-> 1]

\* Math.exp(-deltaE/temperature)
MathExp(deltaE, t) ==
    IF t = ColdTemp
    THEN IF deltaE = 0 THEN Fin(1, 1)
         ELSE IF deltaE <= -8 THEN Infinity
         ELSE IF deltaE < 0 THEN Fin(BigNum, 1)
         ELSE IF deltaE >= 8 THEN Fin(0, 1)
         ELSE Fin(1, BigNum)
    ELSE IF deltaE <= 0 THEN Fin(Pow(t + 1, (0 - deltaE) \div 2), 1)
         ELSE Fin(1, Pow(t + 1, deltaE \div 2))

\* Math.min(v, Number.MAX_VALUE)
MathMinMax(v) ==
    IF v.tag = "inf" THEN MAX_VALUE ELSE v

\* the double boltzmann / (1 + boltzmann)
GRatio(w) ==
    CASE w.tag = "fin" -> Fin(w.n, w.n + w.d)
      [] w.tag = "max" -> Fin(1, 1)
      [] w.tag = "inf" -> NaN
      [] OTHER -> NaN

\* Math.random() < w, for the draw u/DrawDen
RandomLess(u, w) ==
    CASE w.tag = "fin" -> u * w.d < w.n * DrawDen
      [] w.tag = "max" -> TRUE
      [] w.tag = "inf" -> TRUE
      [] OTHER -> FALSE

\* coinFlip(): Math.random() < 0.5
coinFlip(u) == 2 * u < DrawDen

\* the weight without Math.min(.., Number.MAX_VALUE)
Boltzmann_Unclamped(deltaE, t) == MathExp(deltaE, t)

\* const boltzmann = Math.min(Math.exp(-deltaE/temperature), Number.MAX_VALUE)
Boltzmann(deltaE, t) == MathMinMax(MathExp(deltaE, t))

-----------------------------------------------------------------------------
(* The acceptance rules.  deltaE is calcDeltaE(x, y) at the visited site, t  *)
(* the temperature and u the draw the rule takes from Math.random() (each    *)
(* rule takes at most one).  TRUE means: flip the spin.                      *)

\* MRuleFn with <= for < in the test of the draw
MRuleFn_DrawLessOrEqual(deltaE, t, u) ==
    LET boltzmann == Boltzmann(deltaE, t)
    IN  IF deltaE <= 0 THEN TRUE
        ELSE boltzmann.tag # "fin" \/ u * boltzmann.d <= boltzmann.n * DrawDen

\* MRuleFn with the sign of its energy test reversed
MRuleFn_SignSwapped(deltaE, t, u) ==
    LET boltzmann == Boltzmann(deltaE, t)
    IN  IF deltaE >= 0 THEN TRUE
        ELSE IF RandomLess(u, boltzmann) THEN TRUE
        ELSE FALSE

\* MRuleFn deciding as the G-rule does
MRuleFn_AsGlauber(deltaE, t, u) ==
    LET boltzmann == Boltzmann(deltaE, t)
    IN  RandomLess(u, GRatio(boltzmann))

\* Program 5, MRuleFn
MRuleFn(deltaE, t, u) ==
    LET boltzmann == Boltzmann(deltaE, t)
    IN  IF deltaE <= 0 THEN TRUE
        ELSE IF RandomLess(u, boltzmann) THEN TRUE
        ELSE FALSE

\* Program 5, GRuleFn
GRuleFn(deltaE, t, u) ==
    LET boltzmann == Boltzmann(deltaE, t)
    IN  IF RandomLess(u, GRatio(boltzmann)) THEN TRUE ELSE FALSE

\* MstarRuleFn without its neutral branch
MstarRuleFn_NoCoin(deltaE, t, u) ==
    LET boltzmann == Boltzmann(deltaE, t)
    IN  IF deltaE <= 0 THEN TRUE ELSE RandomLess(u, boltzmann)

\* Program 5, MstarRuleFn
MstarRuleFn(deltaE, t, u) ==
    LET boltzmann == Boltzmann(deltaE, t)
    IN  IF deltaE < 0 THEN TRUE
        ELSE IF deltaE = 0 THEN coinFlip(u)
        ELSE IF RandomLess(u, boltzmann) THEN TRUE
        ELSE FALSE

\* Program 5, acceptanceFunctions[acceptanceFn]
acceptor(fn, deltaE, t, u) ==
    CASE fn = "M_rule" -> MRuleFn(deltaE, t, u)
      [] fn = "G_rule" -> GRuleFn(deltaE, t, u)
      [] fn = "M_star_rule" -> MstarRuleFn(deltaE, t, u)

\* Program 1, the test of runMetro
P1_runMetro_accepts(deltaE, t, u) ==
    LET boltzmann == Boltzmann(deltaE, t)
    IN  (deltaE <= 0) \/ RandomLess(u, boltzmann)

\* Program 1, the test of runGlauber
P1_runGlauber_accepts(deltaE, t, u) ==
    LET boltzmann == Boltzmann(deltaE, t)
    IN  RandomLess(u, GRatio(boltzmann))

\* Program 2, updateSpin: whether it negates lattice[x][y].  An acceptanceFn
\* that is none of the three names matches no branch and flips nothing.
P2_updateSpin_accepts(fn, deltaE, t, u) ==
    LET boltzmann == Boltzmann(deltaE, t)
    IN  IF fn = "M_rule"
        THEN IF deltaE <= 0 THEN TRUE ELSE RandomLess(u, boltzmann)
        ELSE IF fn = "G_rule"
        THEN RandomLess(u, GRatio(boltzmann))
        ELSE IF fn = "M_star_rule"
        THEN IF deltaE < 0 THEN TRUE
             ELSE IF deltaE = 0 THEN coinFlip(u)
             ELSE RandomLess(u, boltzmann)
        ELSE FALSE

\* Program 3, updateSpin (the M-rule)
P3_updateSpin_accepts(deltaE, t, u) ==
    LET boltzmann == Boltzmann(deltaE, t)
    IN  (deltaE <= 0) \/ RandomLess(u, boltzmann)

\* Program 3, the test of runMetro_simultaneous
P3_simultaneous_accepts(deltaE, t, u) ==
    LET boltzmann == Boltzmann(deltaE, t)
    IN  (deltaE <= 0) \/ RandomLess(u, boltzmann)

\* Program 4, the test of runMetro
P4_runMetro_accepts(deltaE, t, u) ==
    LET boltzmann == Boltzmann(deltaE, t)
    IN  (deltaE <= 0) \/ RandomLess(u, boltzmann)

\* Program 4, the test of runGlauber
P4_runGlauber_accepts(deltaE, t, u) ==
    LET boltzmann == Boltzmann(deltaE, t)
    IN  RandomLess(u, GRatio(boltzmann))

-----------------------------------------------------------------------------
(* The random source.  A handler that draws many numbers reads them from a   *)
(* stream: the draw with index k (k = 1, 2, ...) of the stream given by the  *)
(* tuple free is free[k], repeated with period Len(free).                    *)

Streams == [1 .. MaxFreeDraws -> Draws]
DrawAt(free, k) == free[((k - 1) % Len(free)) + 1]
ZeroStream == [k \in 1 .. MaxFreeDraws |-> 0]

\* Math.floor(Math.random() * n) for the draw u/DrawDen
RandomIndex(u, n) == (u * n) \div DrawDen

-----------------------------------------------------------------------------
(* Visitation sequences.  A coordinate is a record [x, y]; a sequence is the *)
(* tuple of the coordinates a generator yields (Program 5), or that a sweep  *)
(* function hands to updateSpin (Program 3), in order.  g is gridSize.       *)

XY(x, y) == [x |-> x, y |-> y]

\* Program 5, typewriterGen: for (y = 0..) for (x = 0..) yield {x, y}
RECURSIVE typewriterLoop(_, _, _)
typewriterLoop(g, x, y) ==
    IF y >= g THEN << >>
    ELSE IF x >= g THEN typewriterLoop(g, 0, y + 1)
    ELSE <<XY(x, y)>> \o typewriterLoop(g, x + 1, y)

typewriterGen(g) == typewriterLoop(g, 0, 0)

\* Program 5, simultaneousGen ("identical to typewriterGen")
RECURSIVE simultaneousLoop(_, _, _)
simultaneousLoop(g, x, y) ==
    IF y >= g THEN << >>
    ELSE IF x >= g THEN simultaneousLoop(g, 0, y + 1)
    ELSE <<XY(x, y)>> \o simultaneousLoop(g, x + 1, y)

simultaneousGen(g) == simultaneousLoop(g, 0, 0)

\* one pass of checkerboardGen: for (y = 0..) for (x = (y + first) % 2; x < g; x += 2)
RECURSIVE checkerboardPass(_, _, _, _)
checkerboardPass(g, first, x, y) ==
    IF y >= g THEN << >>
    ELSE IF x >= g THEN checkerboardPass(g, first, (y + 1 + first) % 2, y + 1)
    ELSE <<XY(x, y)>> \o checkerboardPass(g, first, x + 2, y)

\* checkerboardGen with the second pass on the parity of the first
checkerboardGen_SameParity(g) ==
    checkerboardPass(g, 0, 0, 0) \o checkerboardPass(g, 0, 0, 0)

\* Program 5, checkerboardGen
checkerboardGen(g) ==
    checkerboardPass(g, 0, 0, 0) \o checkerboardPass(g, 1, 1, 0)

\* Program 5, diagonalGen: the loop on (x, y, count)
RECURSIVE diagonalLoop(_, _, _, _)
diagonalLoop(g, x, y, count) ==
    IF count >= g * g THEN << >>
    ELSE <<XY(x, y)>> \o
         (IF x = g - 1 THEN diagonalLoop(g, y + 1, g - 1, count + 1)
          ELSE IF y = 0 THEN diagonalLoop(g, 0, x + 1, count + 1)
          ELSE diagonalLoop(g, x + 1, y - 1, count + 1))

diagonalGen(g) == diagonalLoop(g, 0, 0, 0)

\* a shuffle that copies p[j] to p[i] and does not put p[i] back at j
RECURSIVE randomPermutationLoop_Copies(_, _, _, _, _)
randomPermutationLoop_Copies(p, n, i, free, k) ==
    IF i > 1
    THEN LET j == RandomIndex(DrawAt(free, k), n)
             q == [p EXCEPT ![i + 1] = p[j + 1]]
         IN  randomPermutationLoop_Copies(q, n, i - 1, free, k + 1)
    ELSE p

randomPermutation_Copies(n, free) ==
    randomPermutationLoop_Copies([k \in 1 .. n |-> k - 1], n, n - 1, free, 1)

\* randomPermutation(n): p = [0, .., n-1]; for (i = n-1; i > 1; i--) swap p[j], p[i]
\* with j = Math.floor(Math.random() * n).  The array p is the tuple p[1..n]
\* (p[k+1] is the element of index k); the draws are those of the stream
\* free from index k on.
RECURSIVE randomPermutationLoop(_, _, _, _, _)
randomPermutationLoop(p, n, i, free, k) ==
    IF i > 1
    THEN LET j == RandomIndex(DrawAt(free, k), n)
             q == [p EXCEPT ![j + 1] = p[i + 1], ![i + 1] = p[j + 1]]
         IN  randomPermutationLoop(q, n, i - 1, free, k + 1)
    ELSE p

randomPermutation(n, free) ==
    randomPermutationLoop([k \in 1 .. n |-> k - 1], n, n - 1, free, 1)

\* Program 5, permutedGen: x = floor(r / gridSize), y = r % gridSize for r of thePermutation
permutedGen(g, perm) ==
    [k \in 1 .. Len(perm) |-> XY(perm[k] \div g, perm[k] % g)]

\* Program 5, re_permutedGen: the same, on a permutation of its own
re_permutedGen(g, free) ==
    LET p == randomPermutation(g * g, free)
    IN  [k \in 1 .. Len(p) |-> XY(p[k] \div g, p[k] % g)]

\* Program 5, randomGen: N times, x and then y from Math.random()
randomGen(g, free) ==
    [i \in 1 .. g * g |->
        XY(RandomIndex(DrawAt(free, 2 * i - 1), g), RandomIndex(DrawAt(free, 2 * i), g))]

\* Program 5, visitSeqGenerators[visitSeq]()
nextXYgen(kind, g, perm, free) ==
    CASE kind = "typewriter" -> typewriterGen(g)
      [] kind = "checkerboard" -> checkerboardGen(g)
      [] kind = "diagonal" -> diagonalGen(g)
      [] kind = "permuted" -> permutedGen(g, perm)
      [] kind = "repermuted" -> re_permutedGen(g, free)
      [] kind = "random" -> randomGen(g, free)
      [] kind = "simultaneous" -> simultaneousGen(g)

P5VisitSeqs == {"typewriter", "checkerboard", "diagonal", "permuted",
                "repermuted", "random", "simultaneous"}

\* Program 3, runMetro_typewriter: for (y) for (x) updateSpin(x, y)
RECURSIVE P3_typewriterLoop(_, _, _)
P3_typewriterLoop(g, x, y) ==
    IF y >= g THEN << >>
    ELSE IF x >= g THEN P3_typewriterLoop(g, 0, y + 1)
    ELSE <<XY(x, y)>> \o P3_typewriterLoop(g, x + 1, y)

\* one loop nest of runMetro_checkerboard: for (x) for (y = (x + first) % 2; y < g; y += 2)
RECURSIVE P3_checkerboardPass(_, _, _, _)
P3_checkerboardPass(g, first, x, y) ==
    IF x >= g THEN << >>
    ELSE IF y >= g THEN P3_checkerboardPass(g, first, x + 1, (x + 1 + first) % 2)
    ELSE <<XY(x, y)>> \o P3_checkerboardPass(g, first, x, y + 2)

\* the sites with x + y = d on the lattice of side g, by increasing x
DiagonalUp(g, d) ==
    LET lo == IF d < g THEN 0 ELSE d - (g - 1)
        hi == IF d < g THEN d ELSE g - 1
    IN  [k \in 1 .. hi - lo + 1 |-> XY(lo + k - 1, d - (lo + k - 1))]

\* a diagonal sequence that turns round at the end of every anti-diagonal
RECURSIVE diagonalSnake(_, _)
diagonalSnake(g, d) ==
    IF d > 2 * g - 2 THEN << >>
    ELSE LET up == DiagonalUp(g, d)
         IN  (IF d % 2 = 0 THEN up ELSE [k \in 1 .. Len(up) |-> up[Len(up) + 1 - k]])
             \o diagonalSnake(g, d + 1)

diagonalCoords_Snakes(g, x, y, count) == diagonalSnake(g, x + y)

\* Program 3, diagonalCoords
RECURSIVE diagonalCoords(_, _, _, _)
diagonalCoords(g, x, y, count) ==
    IF count >= g * g THEN << >>
    ELSE <<XY(x, y)>> \o
         (IF x = g - 1 THEN diagonalCoords(g, y + 1, g - 1, count + 1)
          ELSE IF y = 0 THEN diagonalCoords(g, 0, x + 1, count + 1)
          ELSE diagonalCoords(g, x + 1, y - 1, count + 1))

\* a boustrophedon that returns to x = 0 at the end of every row
boustrophedonCoords_Returns(g, x, y) == P3_typewriterLoop(g, x, y)

\* Program 3, boustrophedonCoords
RECURSIVE boustrophedonCoords(_, _, _)
boustrophedonCoords(g, x, y) ==
    IF y < g
    THEN <<XY(x, y)>> \o
         (IF y % 2 = 0
          THEN IF x < g - 1 THEN boustrophedonCoords(g, x + 1, y)
               ELSE boustrophedonCoords(g, x, y + 1)
          ELSE IF x > 0 THEN boustrophedonCoords(g, x - 1, y)
               ELSE boustrophedonCoords(g, x, y + 1))
    ELSE << >>

\* Program 3, runMetro_simultaneous: for (x) for (y)
RECURSIVE P3_simultaneousLoop(_, _, _)
P3_simultaneousLoop(g, x, y) ==
    IF x >= g THEN << >>
    ELSE IF y >= g THEN P3_simultaneousLoop(g, x + 1, 0)
    ELSE <<XY(x, y)>> \o P3_simultaneousLoop(g, x, y + 1)

\* Program 3: the sites algoList[kind].fn visits, in the order of its visits
P3_sweepCoords(kind, g, perm, free) ==
    CASE kind = "typewriter" -> P3_typewriterLoop(g, 0, 0)
      [] kind = "checkerboard" ->
            P3_checkerboardPass(g, 0, 0, 0) \o P3_checkerboardPass(g, 1, 0, 1)
      [] kind = "diagonal" -> diagonalCoords(g, 0, 0, 0)
      [] kind = "boustrophedon" -> boustrophedonCoords(g, 0, 0)
      [] kind = "permuted" -> [k \in 1 .. Len(perm) |-> XY(perm[k] \div g, perm[k] % g)]
      [] kind = "repermuted" ->
            LET p == randomPermutation(g * g, free)
            IN  [k \in 1 .. Len(p) |-> XY(p[k] \div g, p[k] % g)]
      [] kind = "random" ->
            [i \in 1 .. g * g |->
                XY(RandomIndex(DrawAt(free, 2 * i - 1), g),
                   RandomIndex(DrawAt(free, 2 * i), g))]
      [] kind = "simultaneous" -> P3_simultaneousLoop(g, 0, 0)

P3Algorithms == {"typewriter", "checkerboard", "diagonal", "boustrophedon",
                 "permuted", "repermuted", "random", "simultaneous"}

-----------------------------------------------------------------------------
(* Lattices.  A lattice of side g is a function L with L[x][y] the spin of   *)
(* column x, row y, for x, y in 0 .. g-1.                                    *)

Spins == {-1, 1}
Lattices(g) == [0 .. g - 1 -> [0 .. g - 1 -> Spins]]

\* Program 5, calcDeltaE on the toroidal lattice (gridEdge = g - 1)
calcDeltaE_NoWrapNorth(L, g, x, y) ==
    LET north == L[x][IF y > 0 THEN y - 1 ELSE 0]
        south == L[x][IF y < g - 1 THEN y + 1 ELSE 0]
        east  == L[IF x > 0 THEN x - 1 ELSE g - 1][y]
        west  == L[IF x < g - 1 THEN x + 1 ELSE 0][y]
    IN  2 * L[x][y] * (north + south + east + west)

calcDeltaE(L, g, x, y) ==
    LET north == L[x][IF y > 0 THEN y - 1 ELSE g - 1]
        south == L[x][IF y < g - 1 THEN y + 1 ELSE 0]
        east  == L[IF x > 0 THEN x - 1 ELSE g - 1][y]
        west  == L[IF x < g - 1 THEN x + 1 ELSE 0][y]
    IN  2 * L[x][y] * (north + south + east + west)

\* Program 1, calcDeltaE
P1_calcDeltaE_Unscaled(L, g, x, y) ==
    LET north == L[x][IF y > 0 THEN y - 1 ELSE g - 1]
        south == L[x][IF y < g - 1 THEN y + 1 ELSE 0]
        east  == L[IF x > 0 THEN x - 1 ELSE g - 1][y]
        west  == L[IF x < g - 1 THEN x + 1 ELSE 0][y]
    IN  L[x][y] * (north + south + east + west)

P1_calcDeltaE(L, g, x, y) ==
    LET north == L[x][IF y > 0 THEN y - 1 ELSE g - 1]
        south == L[x][IF y < g - 1 THEN y + 1 ELSE 0]
        east  == L[IF x > 0 THEN x - 1 ELSE g - 1][y]
        west  == L[IF x < g - 1 THEN x + 1 ELSE 0][y]
    IN  2 * L[x][y] * (north + south + east + west)

\* Program 2, calcDeltaE
P2_calcDeltaE(L, g, x, y) ==
    LET north == L[x][IF y > 0 THEN y - 1 ELSE g - 1]
        south == L[x][IF y < g - 1 THEN y + 1 ELSE 0]
        east  == L[IF x > 0 THEN x - 1 ELSE g - 1][y]
        west  == L[IF x < g - 1 THEN x + 1 ELSE 0][y]
    IN  2 * L[x][y] * (north + south + east + west)

\* Program 3, calcDeltaE
P3_calcDeltaE(L, g, x, y) ==
    LET north == L[x][IF y > 0 THEN y - 1 ELSE g - 1]
        south == L[x][IF y < g - 1 THEN y + 1 ELSE 0]
        east  == L[IF x > 0 THEN x - 1 ELSE g - 1][y]
        west  == L[IF x < g - 1 THEN x + 1 ELSE 0][y]
    IN  2 * L[x][y] * (north + south + east + west)

\* Program 1, calc_lattice_energy: the loop over k = y * g + x, with the
\* running sum s
RECURSIVE calc_lattice_energy_loop(_, _, _, _)
calc_lattice_energy_loop(L, g, k, s) ==
    IF k >= g * g THEN s
    ELSE LET x == k % g
             y == k \div g
             here  == L[x][y]
             east  == L[IF x > 0 THEN x - 1 ELSE g - 1][y]
             south == L[x][IF y < g - 1 THEN y + 1 ELSE 0]
             s1 == IF here = east THEN s - 1 ELSE s + 1
             s2 == IF here = south THEN s1 - 1 ELSE s1 + 1
         IN  calc_lattice_energy_loop(L, g, k + 1, s2)

calc_lattice_energy(L, g) == calc_lattice_energy_loop(L, g, 0, 0)

\* lattice[x][y] *= -1
Negated(L, x, y) == [L EXCEPT ![x][y] = -L[x][y]]

-----------------------------------------------------------------------------
(* Program 4: the lattice with a halo.  gridSize = G is the side of the      *)
(* whole grid, the interior (active) region is 1 .. G-2 in both directions,  *)
(* activeSize = A = G - 2.  gridTop = gridLeft = 0, gridBottom = gridRight = *)
(* G - 1, activeTop = activeLeft = 1, activeBottom = activeRight = G - 2.    *)

BoundaryRules == {"wraparound", "underdog", "twisted", "up", "down", "random",
                  "zero", "sampled"}
P4Algorithms == {"metropolis", "glauber"}
HaloLattices(G) == [0 .. G - 1 -> [0 .. G - 1 -> {-1, 0, 1}]]

\* genBorderXYs: the loop on (x, y, count), A = activeSize
RECURSIVE genBorderLoop(_, _, _, _)
genBorderLoop(A, x, y, count) ==
    IF count >= 4 * A THEN << >>
    ELSE <<XY(x, y)>> \o
         (IF count + 1 < A THEN genBorderLoop(A, x + 1, y, count + 1)
          ELSE IF count + 1 < 2 * A THEN genBorderLoop(A, A + 1, y + 1, count + 1)
          ELSE IF count + 1 < 3 * A THEN genBorderLoop(A, x - 1, A + 1, count + 1)
          ELSE genBorderLoop(A, 0, y - 1, count + 1))

\* genBorderXYs starting on the corner (0, 0) instead of (activeLeft, gridTop)
genBorderXYs_FromCorner(A) == genBorderLoop(A, 0, 0, 0)

genBorderXYs(A) == genBorderLoop(A, 1, 0, 0)

\* a border construction that writes 0 under every rule
BorderCell_AllZero(rule, L, A, xy, free, i) == 0

\* the value the loop body of make<Rule>Border gives the i-th border cell xy,
\* on the lattice L as it is when the cell is reached
BorderCell(rule, L, A, xy, free, i) ==
    LET xSource == 1 + RandomIndex(DrawAt(free, 2 * i - 1), A)
        ySource == 1 + RandomIndex(DrawAt(free, 2 * i), A)
        top == IF xy.y = 0 THEN L[xy.x][A] ELSE L[xy.x][xy.y]
        right == IF xy.x = A + 1 THEN L[1][xy.y] ELSE top
        bottom == IF xy.y = A + 1 THEN L[xy.x][1] ELSE right
        left == IF xy.x = 0 THEN L[A][xy.y] ELSE bottom
        rightT == IF xy.x = A + 1 THEN L[1][(A + 1) - xy.y] ELSE top
        bottomT == IF xy.y = A + 1 THEN L[xy.x][1] ELSE rightT
        leftT == IF xy.x = 0 THEN L[A][(A + 1) - xy.y] ELSE bottomT
    IN  CASE rule = "zero" -> 0
          [] rule = "up" -> 1
          [] rule = "down" -> -1
          [] rule = "random" -> IF coinFlip(DrawAt(free, i)) THEN 1 ELSE -1
          [] rule = "sampled" -> L[xSource][ySource]
          [] rule = "underdog" -> -L[xSource][ySource]
          [] rule = "wraparound" -> left
          [] rule = "twisted" -> leftT

\* makeZeroBorder .. makeTwistedBorder: for (xy of genBorderXYs()) lattice[xy.x][xy.y] = ..
RECURSIVE makeBorderLoop(_, _, _, _, _, _)
makeBorderLoop(rule, L, A, xys, i, free) ==
    IF i > Len(xys) THEN L
    ELSE LET xy == xys[i]
         IN  makeBorderLoop(rule,
                 [L EXCEPT ![xy.x][xy.y] = BorderCell(rule, L, A, xy, free, i)],
                 A, xys, i + 1, free)

\* boundaryList[rule]()
boundaryList(rule, L, A, free) == makeBorderLoop(rule, L, A, genBorderXYs(A), 1, free)

\* makeZeroCorners
makeZeroCorners(L, A) ==
    [L EXCEPT ![0][0] = 0, ![0][A + 1] = 0, ![A + 1][0] = 0, ![A + 1][A + 1] = 0]

\* an updateBorderMacrostep that rebuilds nothing
updateBorderMacrostep_Static(rule, L, A, free) == L

\* updateBorderMacrostep
updateBorderMacrostep(rule, L, A, free) ==
    IF rule = "sampled" THEN boundaryList("sampled", L, A, free)
    ELSE IF rule = "underdog" THEN boundaryList("underdog", L, A, free)
    ELSE IF rule = "random" THEN boundaryList("random", L, A, free)
    ELSE L

\* updateBorderMicrostep(x, y)
updateBorderMicrostep(rule, L, A, x, y) ==
    IF rule = "wraparound"
    THEN IF x = 1 THEN [L EXCEPT ![A + 1][y] = L[x][y]]
         ELSE IF x = A THEN [L EXCEPT ![0][y] = L[x][y]]
         ELSE IF y = 1 THEN [L EXCEPT ![x][A + 1] = L[x][y]]
         ELSE IF y = A THEN [L EXCEPT ![x][0] = L[x][y]]
         ELSE L
    ELSE IF rule = "twisted"
    THEN IF x = 1 THEN [L EXCEPT ![A + 1][(A + 1) - y] = L[x][y]]
         ELSE IF x = A THEN [L EXCEPT ![0][(A + 1) - y] = L[x][y]]
         ELSE IF y = 1 THEN [L EXCEPT ![x][A + 1] = L[x][y]]
         ELSE IF y = A THEN [L EXCEPT ![x][0] = L[x][y]]
         ELSE L
    ELSE L

\* Program 4, calcDeltaE
P4_calcDeltaE(L, x, y) ==
    LET north == L[x][y - 1]
        south == L[x][y + 1]
        east  == L[x + 1][y]
        west  == L[x - 1][y]
    IN  2 * L[x][y] * (north + south + east + west)

\* Program 4, init(): the interior from coin flips (I is the outcome, a
\* lattice of side A), the border of the current rule, the corners
P4_init(rule, A, I, free) ==
    LET blank == [x \in 0 .. A + 1 |-> [y \in 0 .. A + 1 |-> 0]]
        filled == [x \in 0 .. A + 1 |-> [y \in 0 .. A + 1 |->
                     IF x \in 1 .. A /\ y \in 1 .. A THEN I[x - 1][y - 1] ELSE blank[x][y]]]
    IN  makeZeroCorners(boundaryList(rule, filled, A, free), A)

-----------------------------------------------------------------------------
(* Program 4 as a state machine.  A sweep (runMetro, runGlauber) is taken    *)
(* one site at a time: pc = [fn, i] says that sweep fn has treated i sites;  *)
(* pc.fn = "none" between sweeps.  No handler runs while a sweep is under    *)
(* way.  timer holds the function the pending interval timer calls.          *)

MaxActive == 2        \* largest activeSize of the Program 4 state machine

NoSweep == [fn |-> "none", i |-> 0]
\* the streams a border construction under rule draws from, and the draws
\* runGlauber picks a coordinate with
BorderStreams(rule) ==
    IF rule \in {"random", "sampled", "underdog"}
    THEN [1 .. MaxFreeDraws -> {0, DrawDen \div 2, DrawDen - 1}]
    ELSE {ZeroStream}
SiteDraws == {u \in Draws : u % 2 = 0}

P4Unused ==
    /\ runTimer = NA /\ macrostepTimer = NA /\ visitSeq = NA /\ visitationFn = NA
    /\ acceptanceFn = NA
    /\ thePermutation = NA /\ XYiterator = NA /\ visitedArray = NA
    /\ toBeFlippedArray = NA /\ shadowLattice = NA /\ args = NA /\ result = NA
    /\ initPattern = NA /\ doodleFlag = NA

P4Frame == UNCHANGED <<pgm, gridSize, runTimer, macrostepTimer, visitSeq, visitationFn,
                       acceptanceFn, thePermutation, XYiterator, visitedArray, toBeFlippedArray,
                       shadowLattice, initPattern, doodleFlag, args, result>>

\* the state after loading: the globals, then init()
P4_Init(sizes) ==
    /\ pgm = "P4" /\ op = "init" /\ P4Unused
    /\ gridSize \in {A + 2 : A \in sizes}
    /\ temperature \in Temps
    /\ timer = NoTimer /\ boundaryRule = "wraparound" /\ algorithm = "metropolis"
    /\ state = "scrambled" /\ pc = NoSweep
    /\ \E I \in Lattices(gridSize - 2) :
          lattice = P4_init("wraparound", gridSize - 2, I, ZeroStream)

P4Idle == pgm = "P4" /\ pc.fn = "none"

\* setInterval(runMetro, 30) or setInterval(runGlauber, 30), by algorithm
P4_setInterval(algo, old) ==
    IF algo = "metropolis" THEN "runMetro"
    ELSE IF algo = "glauber" THEN "runGlauber"
    ELSE old

P4_doRunButton ==
    /\ P4Idle /\ op' = "doRunButton"
    /\ IF state = "running"
       THEN state' = "paused" /\ timer' = NoTimer
       ELSE state' = "running" /\ timer' = P4_setInterval(algorithm, timer)
    /\ UNCHANGED <<lattice, temperature, algorithm, boundaryRule, pc>> /\ P4Frame

P4_doStepButton ==
    /\ P4Idle /\ op' = "doStepButton"
    /\ IF state = "running"
       THEN state' = "paused" /\ timer' = NoTimer /\ pc' = pc
       ELSE /\ UNCHANGED <<state, timer>>
            /\ pc' = IF algorithm = "metropolis" THEN [fn |-> "runMetro", i |-> 0]
                     ELSE IF algorithm = "glauber" THEN [fn |-> "runGlauber", i |-> 0]
                     ELSE pc
    /\ UNCHANGED <<lattice, temperature, algorithm, boundaryRule>> /\ P4Frame

P4_doResetButton(I, free) ==
    /\ P4Idle /\ op' = "doResetButton"
    /\ state' = "scrambled" /\ timer' = NoTimer
    /\ lattice' = P4_init(boundaryRule, gridSize - 2, I, free)
    /\ UNCHANGED <<temperature, algorithm, boundaryRule, pc>> /\ P4Frame

P4_adjustTemperature(t) ==
    /\ P4Idle /\ op' = "adjustTemperature"
    /\ temperature' = t
    /\ UNCHANGED <<lattice, state, timer, algorithm, boundaryRule, pc>> /\ P4Frame

P4_chooseAlgorithm(algo) ==
    /\ P4Idle /\ op' = "chooseAlgorithm"
    /\ algorithm' = algo
    /\ IF state = "running"
       THEN state' = "running" /\ timer' = P4_setInterval(algo, NoTimer)
       ELSE UNCHANGED <<state, timer>>
    /\ UNCHANGED <<lattice, temperature, boundaryRule, pc>> /\ P4Frame

P4_chooseBoundary(rule, free) ==
    /\ P4Idle /\ op' = "chooseBoundary"
    /\ boundaryRule' = rule
    /\ lattice' = boundaryList(rule, lattice, gridSize - 2, free)
    /\ IF state = "running"
       THEN state' = "running" /\ timer' = P4_setInterval(algorithm, NoTimer)
       ELSE UNCHANGED <<state, timer>>
    /\ UNCHANGED <<temperature, algorithm, pc>> /\ P4Frame

\* the interval timer fires: the sweep it was set with begins
P4_timerTick ==
    /\ P4Idle /\ timer # NoTimer /\ op' = "timerTick"
    /\ pc' = [fn |-> timer, i |-> 0]
    /\ UNCHANGED <<lattice, temperature, state, timer, algorithm, boundaryRule>> /\ P4Frame

\* one turn of the loop of runMetro
P4_runMetro_step(u) ==
    /\ pgm = "P4" /\ pc.fn = "runMetro" /\ pc.i < (gridSize - 2) * (gridSize - 2)
    /\ op' = "runMetro"
    /\ LET A == gridSize - 2
           x == 1 + (pc.i % A)
           y == 1 + (pc.i \div A)
           deltaE == P4_calcDeltaE(lattice, x, y)
       IN  lattice' = IF P4_runMetro_accepts(deltaE, temperature, u)
                      THEN updateBorderMicrostep(boundaryRule, Negated(lattice, x, y), A, x, y)
                      ELSE lattice
    /\ pc' = [pc EXCEPT !.i = pc.i + 1]
    /\ UNCHANGED <<temperature, state, timer, algorithm, boundaryRule>> /\ P4Frame

\* one turn of the loop of runGlauber
P4_runGlauber_step(ux, uy, u) ==
    /\ pgm = "P4" /\ pc.fn = "runGlauber" /\ pc.i < (gridSize - 2) * (gridSize - 2)
    /\ op' = "runGlauber"
    /\ LET A == gridSize - 2
           x == 1 + RandomIndex(ux, A)
           y == 1 + RandomIndex(uy, A)
           deltaE == P4_calcDeltaE(lattice, x, y)
       IN  lattice' = IF P4_runGlauber_accepts(deltaE, temperature, u)
                      THEN updateBorderMicrostep(boundaryRule, Negated(lattice, x, y), A, x, y)
                      ELSE lattice
    /\ pc' = [pc EXCEPT !.i = pc.i + 1]
    /\ UNCHANGED <<temperature, state, timer, algorithm, boundaryRule>> /\ P4Frame

\* the end of runMetro and of runGlauber: updateBorderMacrostep()
P4_sweepEnd(free) ==
    /\ pgm = "P4" /\ pc.fn # "none" /\ pc.i = (gridSize - 2) * (gridSize - 2)
    /\ op' = "updateBorderMacrostep"
    /\ lattice' = updateBorderMacrostep(boundaryRule, lattice, gridSize - 2, free)
    /\ pc' = NoSweep
    /\ UNCHANGED <<temperature, state, timer, algorithm, boundaryRule>> /\ P4Frame

\* Program 4 with the boundary selector ranging over rules
P4_Next(rules) ==
    /\ pgm = "P4"
    /\ \/ P4_doRunButton
       \/ P4_doStepButton
       \/ \E I \in Lattices(gridSize - 2) : \E free \in BorderStreams(boundaryRule) :
             P4_doResetButton(I, free)
       \/ \E t \in Temps : P4_adjustTemperature(t)
       \/ \E algo \in P4Algorithms : P4_chooseAlgorithm(algo)
       \/ \E rule \in rules : \E free \in BorderStreams(rule) : P4_chooseBoundary(rule, free)
       \/ P4_timerTick
       \/ \E u \in Draws : P4_runMetro_step(u)
       \/ \E ux, uy \in SiteDraws : \E u \in Draws : P4_runGlauber_step(ux, uy, u)
       \/ \E free \in BorderStreams(boundaryRule) : P4_sweepEnd(free)

\* the wraparound and twisted rules
MirrorRules == {"wraparound", "twisted"}
InitMirror == P4_Init(1 .. MaxActive)
NextMirror == P4_Next(MirrorRules)
SpecMirror == InitMirror /\ [][NextMirror]_vars

-----------------------------------------------------------------------------
(* Program 5 as a state machine.  Every handler and every timer callback is  *)
(* one step.  XYiterator = [kind, i, p] is the generator object of sequence  *)
(* kind that has yielded i coordinates; p is the permutation re_permutedGen  *)
(* drew at its first next(), << >> otherwise.  permutedGen iterates the      *)
(* array thePermutation held when the generator was created: init() is the   *)
(* only writer of thePermutation and installs a new generator with it.       *)

InitPatterns == {"init-random", "init-up", "init-down"}
AcceptanceFns == {"M_rule", "G_rule", "M_star_rule"}

\* clearLattice(a, false)
Cleared(g) == [x \in 0 .. g - 1 |-> [y \in 0 .. g - 1 |-> FALSE]]

\* nextXYgen()
P5_newIterator(kind) == [kind |-> kind, i |-> 0, p |-> << >>]

\* XYiterator.next(): [done, value, it], it the generator afterwards
P5_next(it, g, perm, free, ux, uy) ==
    IF it.i >= g * g
    THEN [done |-> TRUE, value |-> XY(0, 0), it |-> it]
    ELSE LET p == IF it.kind = "repermuted" /\ it.i = 0
                  THEN randomPermutation(g * g, free) ELSE it.p
             value ==
                CASE it.kind = "random" -> XY(RandomIndex(ux, g), RandomIndex(uy, g))
                  [] it.kind = "repermuted" -> XY(p[it.i + 1] \div g, p[it.i + 1] % g)
                  [] OTHER -> nextXYgen(it.kind, g, perm, free)[it.i + 1]
         IN  [done |-> FALSE, value |-> value, it |-> [it EXCEPT !.i = it.i + 1, !.p = p]]

\* updateSpin that flips the lattice cell in every mode
updateSpin_Immediate(L, V, F, seq, fn, t, g, x, y, u) ==
    LET flipSpin == acceptor(fn, calcDeltaE(L, g, x, y), t, u)
    IN  [lattice |-> IF flipSpin THEN Negated(L, x, y) ELSE L,
         visited |-> [V EXCEPT ![x][y] = TRUE],
         toBeFlipped |-> F]

\* updateSpin(x, y) on lattice L, visitedArray V, toBeFlippedArray F
updateSpin(L, V, F, seq, fn, t, g, x, y, u) ==
    LET flipSpin == acceptor(fn, calcDeltaE(L, g, x, y), t, u)
    IN  [lattice |-> IF flipSpin /\ seq # "simultaneous" THEN Negated(L, x, y) ELSE L,
         visited |-> [V EXCEPT ![x][y] = TRUE],
         toBeFlipped |-> IF flipSpin /\ seq = "simultaneous"
                         THEN [F EXCEPT ![x][y] = TRUE] ELSE F]

\* simultaneousUpdate(): the lattice afterwards
simultaneousUpdate(L, F, g) ==
    [x \in 0 .. g - 1 |-> [y \in 0 .. g - 1 |-> IF F[x][y] THEN -L[x][y] ELSE L[x][y]]]

\* the lattice init() builds: I is the outcome of the coin flips
P5_initLattice(pattern, L, g, I) ==
    IF pattern = "init-random" THEN I
    ELSE IF pattern = "init-up" THEN [x \in 0 .. g - 1 |-> [y \in 0 .. g - 1 |-> 1]]
    ELSE IF pattern = "init-down" THEN [x \in 0 .. g - 1 |-> [y \in 0 .. g - 1 |-> -1]]
    ELSE L

P5Unused ==
    /\ timer = NA /\ algorithm = NA /\ boundaryRule = NA /\ shadowLattice = NA
    /\ visitationFn = NA /\ pc = NA /\ args = NA /\ result = NA

P5Frame == UNCHANGED <<pgm, gridSize, timer, algorithm, boundaryRule, shadowLattice,
                       visitationFn, pc, args, result>>

\* the state after loading: the globals, then init()
P5_Init(sizes, temps, permStreams) ==
    /\ pgm = "P5" /\ op = "init" /\ P5Unused
    /\ gridSize \in sizes
    /\ temperature \in temps
    /\ runTimer = NoTimer /\ macrostepTimer = NoTimer
    /\ initPattern = "init-random" /\ visitSeq = "typewriter" /\ acceptanceFn = "M_rule"
    /\ state = "idle" /\ doodleFlag = FALSE
    /\ \E free \in permStreams : thePermutation = randomPermutation(gridSize * gridSize, free)
    /\ XYiterator = P5_newIterator("typewriter")
    /\ lattice \in Lattices(gridSize)
    /\ visitedArray = Cleared(gridSize) /\ toBeFlippedArray = Cleared(gridSize)

\* init(), called by doResetButton and chooseInitPattern
P5_init(I, free) ==
    /\ thePermutation' = randomPermutation(gridSize * gridSize, free)
    /\ XYiterator' = P5_newIterator(visitSeq)
    /\ lattice' = P5_initLattice(initPattern', lattice, gridSize, I)
    /\ visitedArray' = Cleared(gridSize) /\ toBeFlippedArray' = Cleared(gridSize)

\* the end of doMicroButton, macrostep and runForever: updateSpin on the
\* coordinate nx.value, from lattice L, visitedArray V and toBeFlippedArray F
P5_applyUpdateSpin(L, V, F, nx, u) ==
    LET r == updateSpin(L, V, F, visitSeq, acceptanceFn, temperature, gridSize,
                        nx.value.x, nx.value.y, u)
    IN  /\ lattice' = r.lattice /\ visitedArray' = r.visited
        /\ toBeFlippedArray' = r.toBeFlipped /\ XYiterator' = nx.it

P5_doMicroButton(u, free, ux, uy) ==
    /\ pgm = "P5" /\ op' = "doMicroButton"
    /\ IF state = "busy"
       THEN /\ runTimer' = NoTimer /\ macrostepTimer' = NoTimer /\ state' = "idle"
            /\ UNCHANGED <<lattice, visitedArray, toBeFlippedArray, XYiterator>>
       ELSE /\ UNCHANGED <<runTimer, macrostepTimer, state>>
            /\ LET nx == P5_next(XYiterator, gridSize, thePermutation, free, ux, uy)
               IN  IF nx.done
                   THEN P5_applyUpdateSpin(lattice, Cleared(gridSize), Cleared(gridSize),
                            P5_next(P5_newIterator(visitSeq), gridSize, thePermutation,
                                    free, ux, uy), u)
                   ELSE P5_applyUpdateSpin(lattice, visitedArray, toBeFlippedArray, nx, u)
    /\ UNCHANGED <<temperature, visitSeq, acceptanceFn, thePermutation, initPattern, doodleFlag>>
    /\ P5Frame

\* a macrostep that leaves the marks of the sweep in visitedArray
P5_macrostep_KeepsMarks(u, free, ux, uy) ==
    /\ pgm = "P5" /\ macrostepTimer # NoTimer /\ op' = "macrostep"
    /\ LET nx == P5_next(XYiterator, gridSize, thePermutation, free, ux, uy)
       IN  IF nx.done
           THEN /\ state' = "idle" /\ macrostepTimer' = NoTimer
                /\ XYiterator' = P5_newIterator(visitSeq)
                /\ visitedArray' = visitedArray
                /\ IF visitSeq = "simultaneous"
                   THEN /\ lattice' = simultaneousUpdate(lattice, toBeFlippedArray, gridSize)
                        /\ toBeFlippedArray' = Cleared(gridSize)
                   ELSE UNCHANGED <<lattice, toBeFlippedArray>>
           ELSE /\ UNCHANGED <<state, macrostepTimer>>
                /\ P5_applyUpdateSpin(lattice, visitedArray, toBeFlippedArray, nx, u)
    /\ UNCHANGED <<temperature, runTimer, visitSeq, acceptanceFn, thePermutation,
                   initPattern, doodleFlag>>
    /\ P5Frame

\* the timer callback macrostep
P5_macrostep(u, free, ux, uy) ==
    /\ pgm = "P5" /\ macrostepTimer # NoTimer /\ op' = "macrostep"
    /\ LET nx == P5_next(XYiterator, gridSize, thePermutation, free, ux, uy)
       IN  IF nx.done
           THEN /\ state' = "idle" /\ macrostepTimer' = NoTimer
                /\ XYiterator' = P5_newIterator(visitSeq)
                /\ visitedArray' = Cleared(gridSize)
                /\ IF visitSeq = "simultaneous"
                   THEN /\ lattice' = simultaneousUpdate(lattice, toBeFlippedArray, gridSize)
                        /\ toBeFlippedArray' = Cleared(gridSize)
                   ELSE UNCHANGED <<lattice, toBeFlippedArray>>
           ELSE /\ UNCHANGED <<state, macrostepTimer>>
                /\ P5_applyUpdateSpin(lattice, visitedArray, toBeFlippedArray, nx, u)
    /\ UNCHANGED <<temperature, runTimer, visitSeq, acceptanceFn, thePermutation,
                   initPattern, doodleFlag>>
    /\ P5Frame

\* the timer callback runForever
P5_runForever(u, free, ux, uy) ==
    /\ pgm = "P5" /\ runTimer # NoTimer /\ op' = "runForever"
    /\ LET nx == P5_next(XYiterator, gridSize, thePermutation, free, ux, uy)
       IN  IF nx.done
           THEN LET committed == IF visitSeq = "simultaneous"
                                 THEN simultaneousUpdate(lattice, toBeFlippedArray, gridSize)
                                 ELSE lattice
                    staged == IF visitSeq = "simultaneous"
                              THEN Cleared(gridSize) ELSE toBeFlippedArray
                IN  P5_applyUpdateSpin(committed, Cleared(gridSize), staged,
                        P5_next(P5_newIterator(visitSeq), gridSize, thePermutation,
                                free, ux, uy), u)
           ELSE P5_applyUpdateSpin(lattice, visitedArray, toBeFlippedArray, nx, u)
    /\ UNCHANGED <<temperature, state, runTimer, macrostepTimer, visitSeq, acceptanceFn,
                   thePermutation, initPattern, doodleFlag>>
    /\ P5Frame

P5_doMacroButton ==
    /\ pgm = "P5" /\ op' = "doMacroButton"
    /\ IF state = "busy"
       THEN state' = "idle" /\ runTimer' = NoTimer /\ macrostepTimer' = NoTimer
       ELSE state' = "busy" /\ macrostepTimer' = "macrostep" /\ runTimer' = runTimer
    /\ UNCHANGED <<lattice, temperature, visitSeq, acceptanceFn, thePermutation, XYiterator,
                   visitedArray, toBeFlippedArray, initPattern, doodleFlag>>
    /\ P5Frame

P5_doRunButton ==
    /\ pgm = "P5" /\ op' = "doRunButton"
    /\ IF state = "busy"
       THEN state' = "idle" /\ runTimer' = NoTimer /\ macrostepTimer' = NoTimer
       ELSE state' = "busy" /\ runTimer' = "runForever" /\ macrostepTimer' = macrostepTimer
    /\ UNCHANGED <<lattice, temperature, visitSeq, acceptanceFn, thePermutation, XYiterator,
                   visitedArray, toBeFlippedArray, initPattern, doodleFlag>>
    /\ P5Frame

P5_doResetButton(I, free) ==
    /\ pgm = "P5" /\ op' = "doResetButton"
    /\ state' = "idle" /\ runTimer' = NoTimer /\ macrostepTimer' = NoTimer
    /\ initPattern' = initPattern
    /\ P5_init(I, free)
    /\ UNCHANGED <<temperature, visitSeq, acceptanceFn, doodleFlag>>
    /\ P5Frame

P5_adjustTemperature(t) ==
    /\ pgm = "P5" /\ op' = "adjustTemperature"
    /\ temperature' = t
    /\ UNCHANGED <<lattice, state, runTimer, macrostepTimer, visitSeq, acceptanceFn,
                   thePermutation, XYiterator, visitedArray, toBeFlippedArray,
                   initPattern, doodleFlag>>
    /\ P5Frame

\* a chooseVisitSequence that also draws thePermutation anew
P5_chooseVisitSequence_Redraws(kind) ==
    /\ pgm = "P5" /\ op' = "chooseVisitSequence"
    /\ visitSeq' = kind
    /\ XYiterator' = P5_newIterator(kind)
    /\ thePermutation' = randomPermutation(gridSize * gridSize,
                                           [k \in 1 .. MaxFreeDraws |-> DrawDen \div 2])
    /\ UNCHANGED <<lattice, temperature, state, runTimer, macrostepTimer, acceptanceFn,
                   visitedArray, toBeFlippedArray, initPattern, doodleFlag>>
    /\ P5Frame

P5_chooseVisitSequence(kind) ==
    /\ pgm = "P5" /\ op' = "chooseVisitSequence"
    /\ visitSeq' = kind
    /\ XYiterator' = P5_newIterator(kind)
    /\ UNCHANGED <<lattice, temperature, state, runTimer, macrostepTimer, acceptanceFn,
                   thePermutation, visitedArray, toBeFlippedArray, initPattern, doodleFlag>>
    /\ P5Frame

\* chooseAcceptanceFn that also starts the visitation sequence afresh
P5_chooseAcceptanceFn_Restarts(fn) ==
    /\ pgm = "P5" /\ op' = "chooseAcceptanceFn"
    /\ acceptanceFn' = fn
    /\ XYiterator' = P5_newIterator(visitSeq)
    /\ UNCHANGED <<lattice, temperature, state, runTimer, macrostepTimer, visitSeq,
                   thePermutation, visitedArray, toBeFlippedArray,
                   initPattern, doodleFlag>>
    /\ P5Frame

P5_chooseAcceptanceFn(fn) ==
    /\ pgm = "P5" /\ op' = "chooseAcceptanceFn"
    /\ acceptanceFn' = fn
    /\ UNCHANGED <<lattice, temperature, state, runTimer, macrostepTimer, visitSeq,
                   thePermutation, XYiterator, visitedArray, toBeFlippedArray,
                   initPattern, doodleFlag>>
    /\ P5Frame

P5_chooseInitPattern(pattern, I, free) ==
    /\ pgm = "P5" /\ op' = "chooseInitPattern"
    /\ initPattern' = pattern
    /\ IF state = "idle"
       THEN /\ runTimer' = NoTimer /\ macrostepTimer' = NoTimer
            /\ P5_init(I, free)
       ELSE UNCHANGED <<runTimer, macrostepTimer, lattice, thePermutation, XYiterator,
                        visitedArray, toBeFlippedArray>>
    /\ UNCHANGED <<temperature, state, visitSeq, acceptanceFn, doodleFlag>>
    /\ P5Frame

\* the doodle checkbox is set to checked
P5_setDoodleMode(checked) ==
    /\ pgm = "P5" /\ op' = "setDoodleMode"
    /\ doodleFlag' = checked
    /\ UNCHANGED <<lattice, temperature, state, runTimer, macrostepTimer, visitSeq,
                   acceptanceFn, thePermutation, XYiterator, visitedArray,
                   toBeFlippedArray, initPattern>>
    /\ P5Frame

\* a click on the canvas, in cell (x, y)
P5_doodle(x, y) ==
    /\ pgm = "P5" /\ op' = "doodle"
    /\ lattice' = IF doodleFlag THEN Negated(lattice, x, y) ELSE lattice
    /\ UNCHANGED <<temperature, state, runTimer, macrostepTimer, visitSeq, acceptanceFn,
                   thePermutation, XYiterator, visitedArray, toBeFlippedArray,
                   initPattern, doodleFlag>>
    /\ P5Frame

\* what one next() may draw: a stream for re_permutedGen's permutation, two
\* draws for randomGen's coordinate
StepStreams(kind) == IF kind = "repermuted" THEN Streams ELSE {ZeroStream}
StepSiteDraws(kind) == IF kind = "random" THEN SiteDraws ELSE {0}

\* Program 5 with the selectors and the slider ranging over the given sets
P5_Next(seqs, accs, temps, patterns, permStreams, checks) ==
    /\ pgm = "P5"
    /\ \/ \E u \in Draws : \E free \in StepStreams(visitSeq) :
             \E ux, uy \in StepSiteDraws(visitSeq) : P5_doMicroButton(u, free, ux, uy)
       \/ \E u \in Draws : \E free \in StepStreams(visitSeq) :
             \E ux, uy \in StepSiteDraws(visitSeq) : P5_macrostep(u, free, ux, uy)
       \/ \E u \in Draws : \E free \in StepStreams(visitSeq) :
             \E ux, uy \in StepSiteDraws(visitSeq) : P5_runForever(u, free, ux, uy)
       \/ P5_doMacroButton
       \/ P5_doRunButton
       \/ \E I \in Lattices(gridSize) : \E free \in permStreams : P5_doResetButton(I, free)
       \/ \E t \in temps : P5_adjustTemperature(t)
       \/ \E kind \in seqs : P5_chooseVisitSequence(kind)
       \/ \E fn \in accs : P5_chooseAcceptanceFn(fn)
       \/ \E pattern \in patterns : \E I \in Lattices(gridSize) : \E free \in permStreams :
             P5_chooseInitPattern(pattern, I, free)
       \/ \E checked \in checks : P5_setDoodleMode(checked)
       \/ \E x, y \in 0 .. gridSize - 1 : P5_doodle(x, y)

(* Program 5 on the 2 x 2 lattice with the visitation selector on typewriter *)
(* or simultaneous, the M rule, one temperature, random initial patterns and *)
(* the doodle checkbox left unchecked.                                       *)
MaxMicroGrid == 2

SimulSeqs == {"typewriter", "simultaneous"}
InitP5Simul == P5_Init({MaxMicroGrid}, {1}, {ZeroStream})
NextP5Simul == P5_Next(SimulSeqs, {"M_rule"}, {1}, {"init-random"}, {ZeroStream}, {FALSE})

(* Program 5 on the lattice of side MacroTimerGrid with a macrostep timer    *)
(* that, while it is pending, eventually fires: setInterval calls macrostep  *)
(* every 50 ms until clearInterval.                                          *)
MacroTimerGrid == 1
MacrostepTick ==
    \E u \in Draws : \E free \in StepStreams(visitSeq) :
        \E ux, uy \in StepSiteDraws(visitSeq) : P5_macrostep(u, free, ux, uy)
InitMacroTimer == P5_Init({MacroTimerGrid}, {1}, {ZeroStream})
NextMacroTimer == P5_Next(SimulSeqs, {"M_rule"}, {1}, {"init-random"}, {ZeroStream}, {FALSE})
SpecMacroTimer == InitMacroTimer /\ [][NextMacroTimer]_vars /\ WF_vars(MacrostepTick)

-----------------------------------------------------------------------------
(* Program 3 as a state machine.  A sweep (algoList[algorithm].fn) is taken  *)
(* one site at a time: pc = [fn, i, p] says that the sweep function of       *)
(* sequence fn has treated i sites, p being the permutation that             *)
(* runMetro_re_permuted drew (<< >> otherwise); pc.fn = "none" between       *)
(* sweeps.  timer holds the sequence whose sweep function the interval timer *)
(* calls.  A cell of shadowLattice that was never written holds 0.           *)

P3NoSweep == [fn |-> "none", i |-> 0, p |-> << >>]

P3Unused ==
    /\ runTimer = NA /\ macrostepTimer = NA /\ visitSeq = NA /\ visitationFn = NA
    /\ acceptanceFn = NA
    /\ boundaryRule = NA /\ XYiterator = NA /\ visitedArray = NA
    /\ toBeFlippedArray = NA /\ initPattern = NA /\ doodleFlag = NA
    /\ args = NA /\ result = NA

P3Frame == UNCHANGED <<pgm, gridSize, runTimer, macrostepTimer, visitSeq, visitationFn,
                       acceptanceFn, boundaryRule, XYiterator, visitedArray, toBeFlippedArray,
                       initPattern, doodleFlag, args, result>>

\* the state after loading: the globals, then init()
P3_Init(sizes, temps, permStreams) ==
    /\ pgm = "P3" /\ op = "init" /\ P3Unused
    /\ gridSize \in sizes
    /\ temperature \in temps
    /\ timer = NoTimer /\ algorithm = "typewriter" /\ state = "scrambled"
    /\ \E free \in permStreams : thePermutation = randomPermutation(gridSize * gridSize, free)
    /\ lattice \in Lattices(gridSize)
    /\ shadowLattice = [x \in 0 .. gridSize - 1 |-> [y \in 0 .. gridSize - 1 |-> 0]]
    /\ pc = P3NoSweep

P3Idle == pgm = "P3" /\ pc.fn = "none"

P3_doRunButton ==
    /\ P3Idle /\ op' = "doRunButton"
    /\ IF state = "running"
       THEN state' = "paused" /\ timer' = NoTimer
       ELSE state' = "running" /\ timer' = algorithm
    /\ UNCHANGED <<lattice, shadowLattice, temperature, algorithm, thePermutation, pc>>
    /\ P3Frame

P3_doStepButton ==
    /\ P3Idle /\ op' = "doStepButton"
    /\ IF state = "running"
       THEN state' = "paused" /\ timer' = NoTimer /\ pc' = pc
       ELSE /\ UNCHANGED <<state, timer>>
            /\ pc' = [fn |-> algorithm, i |-> 0, p |-> << >>]
    /\ UNCHANGED <<lattice, shadowLattice, temperature, algorithm, thePermutation>>
    /\ P3Frame

\* doResetButton draws a permutation and init() replaces it with another
P3_doResetButton(I, free) ==
    /\ P3Idle /\ op' = "doResetButton"
    /\ state' = "scrambled" /\ timer' = NoTimer
    /\ thePermutation' = randomPermutation(gridSize * gridSize, free)
    /\ lattice' = I
    /\ UNCHANGED <<shadowLattice, temperature, algorithm, pc>>
    /\ P3Frame

P3_adjustTemperature(t) ==
    /\ P3Idle /\ op' = "adjustTemperature"
    /\ temperature' = t
    /\ UNCHANGED <<lattice, shadowLattice, state, timer, algorithm, thePermutation, pc>>
    /\ P3Frame

P3_chooseAlgorithm(algo) ==
    /\ P3Idle /\ op' = "chooseAlgorithm"
    /\ algorithm' = algo
    /\ IF state = "running"
       THEN state' = "running" /\ timer' = algo
       ELSE UNCHANGED <<state, timer>>
    /\ UNCHANGED <<lattice, shadowLattice, temperature, thePermutation, pc>>
    /\ P3Frame

\* the interval timer fires: the sweep function it was set with begins
P3_timerTick ==
    /\ P3Idle /\ timer # NoTimer /\ op' = "timerTick"
    /\ pc' = [fn |-> timer, i |-> 0, p |-> << >>]
    /\ UNCHANGED <<lattice, shadowLattice, temperature, state, timer, algorithm,
                   thePermutation>>
    /\ P3Frame

\* one turn of the loop of runMetro_simultaneous, flipping the lattice cell
\* as updateSpin does
P3_simultaneousCell_Immediate(L, S, g, t, x, y, u) ==
    LET flip == P3_simultaneous_accepts(P3_calcDeltaE(L, g, x, y), t, u)
        M == IF flip THEN Negated(L, x, y) ELSE L
    IN  [lattice |-> M, shadow |-> [S EXCEPT ![x][y] = M[x][y]]]

\* one turn of the first loop nest of runMetro_simultaneous without the copy
\* shadowLattice[x][y] = lattice[x][y]
P3_simultaneousCell_FlipsOnly(L, S, g, t, x, y, u) ==
    LET flip == P3_simultaneous_accepts(P3_calcDeltaE(L, g, x, y), t, u)
    IN  [lattice |-> L,
         shadow |-> IF flip THEN [S EXCEPT ![x][y] = -L[x][y]] ELSE S]

\* one turn of the first loop nest of runMetro_simultaneous
P3_simultaneousCell(L, S, g, t, x, y, u) ==
    LET flip == P3_simultaneous_accepts(P3_calcDeltaE(L, g, x, y), t, u)
    IN  [lattice |-> L,
         shadow |-> [S EXCEPT ![x][y] = IF flip THEN -L[x][y] ELSE L[x][y]]]

\* one visit of the sweep function under way
P3_sweepStep(u, free, ux, uy) ==
    /\ pgm = "P3" /\ pc.fn # "none" /\ pc.i < gridSize * gridSize
    /\ op' = "sweepStep"
    /\ LET g == gridSize
           p == IF pc.fn = "repermuted" /\ pc.i = 0
                THEN randomPermutation(g * g, free) ELSE pc.p
           xy == CASE pc.fn = "random" -> XY(RandomIndex(ux, g), RandomIndex(uy, g))
                   [] pc.fn = "repermuted" -> XY(p[pc.i + 1] \div g, p[pc.i + 1] % g)
                   [] OTHER -> P3_sweepCoords(pc.fn, g, thePermutation, free)[pc.i + 1]
       IN  /\ pc' = [pc EXCEPT !.i = pc.i + 1, !.p = p]
           /\ IF pc.fn = "simultaneous"
              THEN LET r == P3_simultaneousCell(lattice, shadowLattice, g, temperature,
                                                xy.x, xy.y, u)
                   IN  lattice' = r.lattice /\ shadowLattice' = r.shadow
              ELSE /\ lattice' =
                         IF P3_updateSpin_accepts(P3_calcDeltaE(lattice, g, xy.x, xy.y),
                                                  temperature, u)
                         THEN Negated(lattice, xy.x, xy.y) ELSE lattice
                   /\ shadowLattice' = shadowLattice
    /\ UNCHANGED <<temperature, state, timer, algorithm, thePermutation>>
    /\ P3Frame

\* the end of the sweep function: runMetro_simultaneous copies shadowLattice
\* to lattice; every sweep function redraws
P3_sweepEnd ==
    /\ pgm = "P3" /\ pc.fn # "none" /\ pc.i = gridSize * gridSize
    /\ op' = "sweepEnd"
    /\ lattice' = IF pc.fn = "simultaneous" THEN shadowLattice ELSE lattice
    /\ pc' = P3NoSweep
    /\ UNCHANGED <<shadowLattice, temperature, state, timer, algorithm, thePermutation>>
    /\ P3Frame

\* Program 3 with the selector and the slider ranging over the given sets
P3_Next(algos, temps, permStreams) ==
    /\ pgm = "P3"
    /\ \/ P3_doRunButton
       \/ P3_doStepButton
       \/ \E I \in Lattices(gridSize) : \E free \in permStreams : P3_doResetButton(I, free)
       \/ \E t \in temps : P3_adjustTemperature(t)
       \/ \E algo \in algos : P3_chooseAlgorithm(algo)
       \/ P3_timerTick
       \/ \E u \in Draws : \E free \in StepStreams(pc.fn) :
             \E ux, uy \in StepSiteDraws(pc.fn) : P3_sweepStep(u, free, ux, uy)
       \/ P3_sweepEnd

(* Programs 3 and 5 on the 2 x 2 lattice, with typewriter and simultaneous   *)
(* sweeps.                                                                   *)
InitP3Simul == P3_Init({MaxMicroGrid}, {1}, {ZeroStream})
NextP3Simul == P3_Next(SimulSeqs, {1}, {ZeroStream})
InitSimul == InitP3Simul \/ InitP5Simul
NextSimul == NextP3Simul \/ NextP5Simul
SpecSimul == InitSimul /\ [][NextSimul]_vars

-----------------------------------------------------------------------------
(* Program 1 as a state machine.  A sweep (runMetro, runGlauber) is taken    *)
(* one site at a time: pc = [fn, i] says that sweep fn has treated i sites;  *)
(* pc.fn = "none" between sweeps.  No handler runs while a sweep is under    *)
(* way.  timer holds the function the pending interval timer calls.          *)

P1Algorithms == {"metro", "glauber"}
P1Patterns == {"scrambled", "plus", "minus"}

P1Unused ==
    /\ runTimer = NA /\ macrostepTimer = NA /\ visitSeq = NA /\ visitationFn = NA
    /\ acceptanceFn = NA
    /\ boundaryRule = NA /\ thePermutation = NA /\ XYiterator = NA /\ visitedArray = NA
    /\ toBeFlippedArray = NA /\ shadowLattice = NA /\ args = NA /\ result = NA
    /\ initPattern = NA /\ doodleFlag = NA

P1Frame == UNCHANGED <<pgm, gridSize, runTimer, macrostepTimer, visitSeq, visitationFn,
                       acceptanceFn, boundaryRule, thePermutation, XYiterator, visitedArray,
                       toBeFlippedArray, shadowLattice, initPattern, doodleFlag,
                       args, result>>

\* Program 1, init(pattern) on lattice L: I is the outcome of the coin flips
P1_init(pattern, L, g, I) ==
    IF pattern = "scrambled" THEN I
    ELSE IF pattern = "plus" THEN [x \in 0 .. g - 1 |-> [y \in 0 .. g - 1 |-> 1]]
    ELSE IF pattern = "minus" THEN [x \in 0 .. g - 1 |-> [y \in 0 .. g - 1 |-> -1]]
    ELSE L

\* the state after loading: the globals, then init()
P1_Init(sizes) ==
    /\ pgm = "P1" /\ op = "init" /\ P1Unused
    /\ gridSize \in sizes
    /\ temperature \in Temps
    /\ timer = NoTimer /\ algorithm = "metro" /\ state = "scrambled"
    /\ \E I \in Lattices(gridSize) : lattice = P1_init("scrambled", I, gridSize, I)
    /\ pc = NoSweep

P1Idle == pgm = "P1" /\ pc.fn = "none"

\* setInterval(runMetro, 30) or setInterval(runGlauber, 30), by algorithm
P1_setInterval(algo, old) ==
    IF algo = "metro" THEN "runMetro"
    ELSE IF algo = "glauber" THEN "runGlauber"
    ELSE old

\* doRunButton without clearInterval(timer) in the branch that stops
P1_runButtonBody_KeepsTimer(s, tm, algo) ==
    IF s # "running"
    THEN [state |-> "running", timer |-> P1_setInterval(algo, tm)]
    ELSE [state |-> "paused", timer |-> tm]

\* the body of doRunButton, from state s and timer tm: [state, timer]
P1_runButtonBody(s, tm, algo) ==
    IF s # "running"
    THEN [state |-> "running", timer |-> P1_setInterval(algo, tm)]
    ELSE [state |-> "paused", timer |-> NoTimer]

P1_doRunButton ==
    /\ P1Idle /\ op' = "doRunButton"
    /\ LET r == P1_runButtonBody(state, timer, algorithm)
       IN  state' = r.state /\ timer' = r.timer
    /\ UNCHANGED <<lattice, temperature, algorithm, pc>> /\ P1Frame

P1_doStepButton ==
    /\ P1Idle /\ op' = "doStepButton"
    /\ IF state = "running"
       THEN state' = "paused" /\ timer' = NoTimer /\ pc' = pc
       ELSE /\ UNCHANGED <<state, timer>>
            /\ pc' = IF algorithm = "metro" THEN [fn |-> "runMetro", i |-> 0]
                     ELSE IF algorithm = "glauber" THEN [fn |-> "runGlauber", i |-> 0]
                     ELSE pc
    /\ UNCHANGED <<lattice, temperature, algorithm>> /\ P1Frame

\* doResetButton without clearInterval(timer)
P1_doResetButton_NoClear(I) ==
    /\ P1Idle /\ op' = "doResetButton"
    /\ state' = "scrambled" /\ timer' = timer
    /\ lattice' = P1_init("scrambled", lattice, gridSize, I)
    /\ UNCHANGED <<temperature, algorithm, pc>> /\ P1Frame

\* doResetButton: state = 'paused', clearInterval(timer), then init()
P1_doResetButton(I) ==
    /\ P1Idle /\ op' = "doResetButton"
    /\ state' = "scrambled" /\ timer' = NoTimer
    /\ lattice' = P1_init("scrambled", lattice, gridSize, I)
    /\ UNCHANGED <<temperature, algorithm, pc>> /\ P1Frame

P1_adjustTemperature(t) ==
    /\ P1Idle /\ op' = "adjustTemperature"
    /\ temperature' = t
    /\ UNCHANGED <<lattice, state, timer, algorithm, pc>> /\ P1Frame

\* chooseAlgorithm: when running, state = 'switchingAlgorithms',
\* clearInterval(timer) and doRunButton()
P1_chooseAlgorithm(algo) ==
    /\ P1Idle /\ op' = "chooseAlgorithm"
    /\ algorithm' = algo
    /\ IF state = "running"
       THEN LET r == P1_runButtonBody("switchingAlgorithms", NoTimer, algo)
            IN  state' = r.state /\ timer' = r.timer
       ELSE UNCHANGED <<state, timer>>
    /\ UNCHANGED <<lattice, temperature, pc>> /\ P1Frame

\* the interval timer fires: the sweep it was set with begins
P1_timerTick ==
    /\ P1Idle /\ timer # NoTimer /\ op' = "timerTick"
    /\ pc' = [fn |-> timer, i |-> 0]
    /\ UNCHANGED <<lattice, temperature, state, timer, algorithm>> /\ P1Frame

\* the position after one more turn of a sweep's loop
P1_advance(p, g) == IF p.i + 1 >= g * g THEN NoSweep ELSE [p EXCEPT !.i = p.i + 1]

\* one turn of the loop of runMetro: for y, for x
P1_runMetro_step(u) ==
    /\ pgm = "P1" /\ pc.fn = "runMetro" /\ op' = "runMetro"
    /\ LET x == pc.i % gridSize
           y == pc.i \div gridSize
           deltaE == P1_calcDeltaE(lattice, gridSize, x, y)
       IN  lattice' = IF P1_runMetro_accepts(deltaE, temperature, u)
                      THEN Negated(lattice, x, y) ELSE lattice
    /\ pc' = P1_advance(pc, gridSize)
    /\ UNCHANGED <<temperature, state, timer, algorithm>> /\ P1Frame

\* one turn of the loop of runGlauber
P1_runGlauber_step(ux, uy, u) ==
    /\ pgm = "P1" /\ pc.fn = "runGlauber" /\ op' = "runGlauber"
    /\ LET x == RandomIndex(ux, gridSize)
           y == RandomIndex(uy, gridSize)
           deltaE == P1_calcDeltaE(lattice, gridSize, x, y)
       IN  lattice' = IF P1_runGlauber_accepts(deltaE, temperature, u)
                      THEN Negated(lattice, x, y) ELSE lattice
    /\ pc' = P1_advance(pc, gridSize)
    /\ UNCHANGED <<temperature, state, timer, algorithm>> /\ P1Frame

\* Program 1: the handlers, the timer and the sweeps
P1_Next ==
    /\ pgm = "P1"
    /\ \/ P1_doRunButton
       \/ P1_doStepButton
       \/ \E I \in Lattices(gridSize) : P1_doResetButton(I)
       \/ \E t \in Temps : P1_adjustTemperature(t)
       \/ \E algo \in P1Algorithms : P1_chooseAlgorithm(algo)
       \/ P1_timerTick
       \/ \E u \in Draws : P1_runMetro_step(u)
       \/ \E ux, uy \in SiteDraws : \E u \in Draws : P1_runGlauber_step(ux, uy, u)

-----------------------------------------------------------------------------

(* Program 2 as a state machine.  runBatch is taken one site at a time:      *)
(* pc = [fn, i] says that it has treated i sites; pc.fn = "none" between     *)
(* sweeps.  timer holds the function the pending interval timer calls.       *)

P2VisitationFns == {"deterministic", "random"}
\* the two ends of the temperature slider
CellTemps == {1, ColdTemp}

P2Unused ==
    /\ runTimer = NA /\ macrostepTimer = NA /\ visitSeq = NA /\ algorithm = NA
    /\ boundaryRule = NA /\ thePermutation = NA /\ XYiterator = NA /\ visitedArray = NA
    /\ toBeFlippedArray = NA /\ shadowLattice = NA /\ args = NA /\ result = NA
    /\ initPattern = NA /\ doodleFlag = NA

P2Frame == UNCHANGED <<pgm, gridSize, runTimer, macrostepTimer, visitSeq, algorithm,
                       boundaryRule, thePermutation, XYiterator, visitedArray,
                       toBeFlippedArray, shadowLattice, initPattern, doodleFlag,
                       args, result>>

\* Program 2, init(pattern) on lattice L: I is the outcome of the coin flips
P2_init(pattern, L, g, I) ==
    IF pattern = "scrambled" THEN I
    ELSE IF pattern = "plus" THEN [x \in 0 .. g - 1 |-> [y \in 0 .. g - 1 |-> 1]]
    ELSE IF pattern = "minus" THEN [x \in 0 .. g - 1 |-> [y \in 0 .. g - 1 |-> -1]]
    ELSE L

\* the position after one more turn of runBatch's loop
P2_advance(p, g) == IF p.i + 1 >= g * g THEN NoSweep ELSE [p EXCEPT !.i = p.i + 1]

\* the state after loading: the globals, then init()
P2_Init(sizes) ==
    /\ pgm = "P2" /\ op = "init" /\ P2Unused
    /\ gridSize \in sizes
    /\ temperature \in Temps
    /\ timer = NoTimer /\ visitationFn = "deterministic" /\ acceptanceFn = "M_rule"
    /\ state = "scrambled"
    /\ \E I \in Lattices(gridSize) : lattice = P2_init("scrambled", I, gridSize, I)
    /\ pc = NoSweep

P2Idle == pgm = "P2" /\ pc.fn = "none"

\* the body of doRunButton, from state s: [state, timer]
P2_runButtonBody(s) ==
    IF s = "running"
    THEN [state |-> "paused", timer |-> NoTimer]
    ELSE [state |-> "running", timer |-> "runBatch"]

\* runBatch() begins: neither loop runs when visitationFn is neither name
P2_runBatchBegins(v, g) ==
    IF v \in {"deterministic", "random"} /\ g > 0
    THEN [fn |-> "runBatch", i |-> 0] ELSE NoSweep

P2_doRunButton ==
    /\ P2Idle /\ op' = "doRunButton"
    /\ LET r == P2_runButtonBody(state)
       IN  state' = r.state /\ timer' = r.timer
    /\ UNCHANGED <<lattice, temperature, visitationFn, acceptanceFn, pc>> /\ P2Frame

P2_doStepButton ==
    /\ P2Idle /\ op' = "doStepButton"
    /\ IF state = "running"
       THEN state' = "paused" /\ timer' = NoTimer /\ pc' = pc
       ELSE /\ UNCHANGED <<state, timer>>
            /\ pc' = P2_runBatchBegins(visitationFn, gridSize)
    /\ UNCHANGED <<lattice, temperature, visitationFn, acceptanceFn>> /\ P2Frame

\* doResetButton: state = 'paused', clearInterval(timer), then init()
P2_doResetButton(I) ==
    /\ P2Idle /\ op' = "doResetButton"
    /\ state' = "scrambled" /\ timer' = NoTimer
    /\ lattice' = P2_init("scrambled", lattice, gridSize, I)
    /\ UNCHANGED <<temperature, visitationFn, acceptanceFn, pc>> /\ P2Frame

P2_adjustTemperature(t) ==
    /\ P2Idle /\ op' = "adjustTemperature"
    /\ temperature' = t
    /\ UNCHANGED <<lattice, state, timer, visitationFn, acceptanceFn, pc>> /\ P2Frame

\* chooseVisitationFn: when running, state = 'switchingVisitationFn',
\* clearInterval(timer) and doRunButton()
P2_chooseVisitationFn(v) ==
    /\ P2Idle /\ op' = "chooseVisitationFn"
    /\ visitationFn' = v
    /\ IF state = "running"
       THEN LET r == P2_runButtonBody("switchingVisitationFn")
            IN  state' = r.state /\ timer' = r.timer
       ELSE UNCHANGED <<state, timer>>
    /\ UNCHANGED <<lattice, temperature, acceptanceFn, pc>> /\ P2Frame

\* chooseAcceptanceFn: when running, state = 'switchingAcceptanceFn',
\* clearInterval(timer) and doRunButton()
P2_chooseAcceptanceFn(fn) ==
    /\ P2Idle /\ op' = "chooseAcceptanceFn"
    /\ acceptanceFn' = fn
    /\ IF state = "running"
       THEN LET r == P2_runButtonBody("switchingAcceptanceFn")
            IN  state' = r.state /\ timer' = r.timer
       ELSE UNCHANGED <<state, timer>>
    /\ UNCHANGED <<lattice, temperature, visitationFn, pc>> /\ P2Frame

\* the interval timer fires: runBatch begins
P2_timerTick ==
    /\ P2Idle /\ timer # NoTimer /\ op' = "timerTick"
    /\ pc' = P2_runBatchBegins(visitationFn, gridSize)
    /\ UNCHANGED <<lattice, temperature, state, timer, visitationFn, acceptanceFn>>
    /\ P2Frame

\* one turn of the loop of runBatch: updateSpin(x, y)
P2_runBatch_step(ux, uy, u) ==
    /\ pgm = "P2" /\ pc.fn = "runBatch" /\ op' = "runBatch"
    /\ LET x == IF visitationFn = "random" THEN RandomIndex(ux, gridSize)
                ELSE pc.i % gridSize
           y == IF visitationFn = "random" THEN RandomIndex(uy, gridSize)
                ELSE pc.i \div gridSize
           deltaE == P2_calcDeltaE(lattice, gridSize, x, y)
       IN  lattice' = IF P2_updateSpin_accepts(acceptanceFn, deltaE, temperature, u)
                      THEN Negated(lattice, x, y) ELSE lattice
    /\ pc' = P2_advance(pc, gridSize)
    /\ UNCHANGED <<temperature, state, timer, visitationFn, acceptanceFn>> /\ P2Frame

\* the draws a visit of runBatch picks its coordinate with
P2SiteDraws(v) == IF v = "random" THEN SiteDraws ELSE {0}

\* Program 2 with the selectors ranging over the given sets
P2_Next(visits, accs) ==
    /\ pgm = "P2"
    /\ \/ P2_doRunButton
       \/ P2_doStepButton
       \/ \E I \in Lattices(gridSize) : P2_doResetButton(I)
       \/ \E t \in CellTemps : P2_adjustTemperature(t)
       \/ \E v \in visits : P2_chooseVisitationFn(v)
       \/ \E fn \in accs : P2_chooseAcceptanceFn(fn)
       \/ P2_timerTick
       \/ \E ux, uy \in P2SiteDraws(visitationFn) : \E u \in Draws :
             P2_runBatch_step(ux, uy, u)

(* Program 4 alone: all eight boundary rules on activeSize 1, the wraparound *)
(* and twisted rules on activeSize 2..MaxActive.                             *)
InitBoundaries == P4_Init(1 .. MaxActive)
NextBoundaries ==
    \/ (pgm = "P4" /\ gridSize = 3 /\ P4_Next(BoundaryRules))
    \/ (pgm = "P4" /\ gridSize > 3 /\ P4_Next(MirrorRules))
SpecBoundaries == InitBoundaries /\ [][NextBoundaries]_vars

(* The five programs side by side, for properties of every reachable state.  *)
(* Program 1 on sides 1..MaxMicroGrid; Programs 2 and 3 on side             *)
(* MaxMicroGrid; Program 4 with all eight boundary rules                     *)
(* on activeSize 1; Program 5 on side 1 with the typewriter and simultaneous *)
(* sequences, every acceptance rule and initial pattern and the doodle mode. *)
InitCells ==
    \/ P1_Init(1 .. MaxMicroGrid)
    \/ P2_Init({MaxMicroGrid})
    \/ P3_Init({MaxMicroGrid}, {1}, {ZeroStream})
    \/ P4_Init({1})
    \/ P5_Init({1}, {1}, {ZeroStream})
NextCells ==
    \/ P1_Next
    \/ P2_Next(P2VisitationFns, AcceptanceFns)
    \/ P3_Next(P3Algorithms \ {"repermuted"}, {1}, {ZeroStream})
    \/ P4_Next(BoundaryRules)
    \/ P5_Next(SimulSeqs, AcceptanceFns, CellTemps, InitPatterns, {ZeroStream}, BOOLEAN)
SpecCells == InitCells /\ [][NextCells]_vars

(* Function harnesses: pgm = "fn", the inputs in args, the value returned in *)
(* result; the variables of the programs are not in use.                     *)

progVars == <<gridSize, lattice, temperature, state, timer, runTimer,
              macrostepTimer, algorithm, visitSeq, visitationFn, acceptanceFn, boundaryRule,
              thePermutation, XYiterator, visitedArray, toBeFlippedArray,
              shadowLattice, initPattern, doodleFlag, pc>>

InitFn(a) ==
    /\ pgm = "fn" /\ op = "init" /\ args = a /\ result = NA
    /\ gridSize = NA /\ lattice = NA /\ temperature = NA /\ state = NA
    /\ timer = NA /\ runTimer = NA /\ macrostepTimer = NA /\ algorithm = NA
    /\ visitSeq = NA /\ visitationFn = NA /\ acceptanceFn = NA /\ boundaryRule = NA
    /\ thePermutation = NA /\ XYiterator = NA /\ visitedArray = NA
    /\ toBeFlippedArray = NA /\ shadowLattice = NA /\ pc = NA
    /\ initPattern = NA /\ doodleFlag = NA

\* one call of every implementation of the acceptance rules on the same
\* deltaE, temperature and draw
RuleArgs == [fn : {"rules"}, deltaE : EvenDeltas, t : Temps, u : Draws]

InitRules == \E a \in RuleArgs : InitFn(a)

ApplyRules ==
    /\ pgm = "fn" /\ args.fn = "rules" /\ op = "init"
    /\ op' = "acceptanceRules"
    /\ result' =
         [P1_M     |-> P1_runMetro_accepts(args.deltaE, args.t, args.u),
          P1_G     |-> P1_runGlauber_accepts(args.deltaE, args.t, args.u),
          P2_M     |-> P2_updateSpin_accepts("M_rule", args.deltaE, args.t, args.u),
          P2_G     |-> P2_updateSpin_accepts("G_rule", args.deltaE, args.t, args.u),
          P2_Mstar |-> P2_updateSpin_accepts("M_star_rule", args.deltaE, args.t, args.u),
          P3_M     |-> P3_updateSpin_accepts(args.deltaE, args.t, args.u),
          P3_Msim  |-> P3_simultaneous_accepts(args.deltaE, args.t, args.u),
          P4_M     |-> P4_runMetro_accepts(args.deltaE, args.t, args.u),
          P4_G     |-> P4_runGlauber_accepts(args.deltaE, args.t, args.u),
          P5_M     |-> acceptor("M_rule", args.deltaE, args.t, args.u),
          P5_G     |-> acceptor("G_rule", args.deltaE, args.t, args.u),
          P5_Mstar |-> acceptor("M_star_rule", args.deltaE, args.t, args.u)]
    /\ UNCHANGED <<pgm, args>> /\ UNCHANGED progVars

SpecRules == InitRules /\ [][ApplyRules]_vars

(* One sweep of a visitation sequence of Program 3 or Program 5, on a grid   *)
(* of side g: permFree is the stream init() drew thePermutation from, free   *)
(* the stream the sweep itself draws from.                                   *)
SweepArgs ==
    [fn : {"sweep"}, prog : {"P5"}, kind : P5VisitSeqs \ {"permuted", "repermuted", "random"},
     g : 1 .. MaxSeqGrid, permFree : {ZeroStream}, free : {ZeroStream}]
    \cup
    [fn : {"sweep"}, prog : {"P3"}, kind : P3Algorithms \ {"permuted", "repermuted", "random"},
     g : 1 .. MaxSeqGrid, permFree : {ZeroStream}, free : {ZeroStream}]
    \cup
    [fn : {"sweep"}, prog : {"P3", "P5"}, kind : {"permuted"},
     g : 1 .. MaxSeqGrid, permFree : Streams, free : {ZeroStream}]
    \cup
    [fn : {"sweep"}, prog : {"P3", "P5"}, kind : {"repermuted", "random"},
     g : 1 .. MaxSeqGrid, permFree : {ZeroStream}, free : Streams]

InitSweep == \E a \in SweepArgs : InitFn(a)

ApplySweep ==
    /\ pgm = "fn" /\ args.fn = "sweep" /\ op = "init"
    /\ op' = "sweep"
    /\ LET perm == randomPermutation(args.g * args.g, args.permFree)
       IN  result' = IF args.prog = "P5"
                     THEN nextXYgen(args.kind, args.g, perm, args.free)
                     ELSE P3_sweepCoords(args.kind, args.g, perm, args.free)
    /\ UNCHANGED <<pgm, args>> /\ UNCHANGED progVars

SpecSweep == InitSweep /\ [][ApplySweep]_vars

(* randomPermutation(n) for n = 0..MaxPermN on every stream of draws, and    *)
(* the coordinates permutedGen makes of the result on a lattice of side g.   *)
MaxPermN == 9         \* randomPermutation is called with n = 0..MaxPermN
PermutationArgs ==
    [fn : {"randomPermutation"}, n : 0 .. MaxPermN, g : 1 .. MaxGrid, free : Streams]

InitPermutation == \E a \in PermutationArgs : InitFn(a)

ApplyPermutation ==
    /\ pgm = "fn" /\ args.fn = "randomPermutation" /\ op = "init"
    /\ op' = "randomPermutation"
    /\ \E p \in {randomPermutation(args.n, args.free)} :
          result' = [p |-> p, sites |-> permutedGen(args.g, p)]
    /\ UNCHANGED <<pgm, args>> /\ UNCHANGED progVars

SpecPermutation == InitPermutation /\ [][ApplyPermutation]_vars

(* Consecutive runMetro sweeps of Program 1 on the torus of side A and of    *)
(* Program 4 under the wraparound rule on the same A x A interior, with the  *)
(* same temperature and the same stream of draws.  A sweep is recorded as    *)
(* its visits (site, in coordinates of the interior, and deltaE there) and   *)
(* the interior it ends with; k counts the draws taken so far.               *)
MaxSweeps == 2        \* 1..MaxSweeps consecutive sweeps are compared

RECURSIVE P1_runMetroVisits(_, _, _, _, _, _)
P1_runMetroVisits(L, g, t, d, i, k) ==
    IF i >= g * g THEN [lattice |-> L, k |-> k, visits |-> << >>]
    ELSE LET x == i % g
             y == i \div g
             deltaE == P1_calcDeltaE(L, g, x, y)
             rest == P1_runMetroVisits(IF P1_runMetro_accepts(deltaE, t, DrawAt(d, k + 1))
                                       THEN Negated(L, x, y) ELSE L,
                                       g, t, d, i + 1, IF deltaE <= 0 THEN k ELSE k + 1)
         IN  [rest EXCEPT !.visits = <<[x |-> x, y |-> y, deltaE |-> deltaE]>> \o @]

RECURSIVE P1_sweeps(_, _, _, _, _, _)
P1_sweeps(L, g, t, d, k, n) ==
    IF n = 0 THEN << >>
    ELSE LET r == P1_runMetroVisits(L, g, t, d, 0, k)
         IN  <<[lattice |-> r.lattice, visits |-> r.visits]>>
             \o P1_sweeps(r.lattice, g, t, d, r.k, n - 1)

RECURSIVE P4_runMetroVisits(_, _, _, _, _, _, _)
P4_runMetroVisits(L, A, rule, t, d, i, k) ==
    IF i >= A * A
    THEN [lattice |-> updateBorderMacrostep(rule, L, A, d), k |-> k, visits |-> << >>]
    ELSE LET x == 1 + (i % A)
             y == 1 + (i \div A)
             deltaE == P4_calcDeltaE(L, x, y)
             rest == P4_runMetroVisits(
                        IF P4_runMetro_accepts(deltaE, t, DrawAt(d, k + 1))
                        THEN updateBorderMicrostep(rule, Negated(L, x, y), A, x, y)
                        ELSE L,
                        A, rule, t, d, i + 1, IF deltaE <= 0 THEN k ELSE k + 1)
         IN  [rest EXCEPT !.visits =
                 <<[x |-> x - 1, y |-> y - 1, deltaE |-> deltaE]>> \o @]

\* the active region of the Program 4 lattice L as a lattice of side A
ActiveRegion(L, A) == [x \in 0 .. A - 1 |-> [y \in 0 .. A - 1 |-> L[x + 1][y + 1]]]

RECURSIVE P4_sweeps(_, _, _, _, _, _, _)
P4_sweeps(L, A, rule, t, d, k, n) ==
    IF n = 0 THEN << >>
    ELSE LET r == P4_runMetroVisits(L, A, rule, t, d, 0, k)
         IN  <<[lattice |-> ActiveRegion(r.lattice, A), visits |-> r.visits]>>
             \o P4_sweeps(r.lattice, A, rule, t, d, r.k, n - 1)

EmulateArgs ==
    UNION {[fn : {"emulate"}, A : {A}, I : Lattices(A), t : Temps, d : Streams,
            sweeps : 1 .. MaxSweeps] : A \in 1 .. MaxActive}

InitEmulate == \E a \in EmulateArgs : InitFn(a)

ApplyEmulate ==
    /\ pgm = "fn" /\ args.fn = "emulate" /\ op = "init"
    /\ op' = "runMetro"
    /\ result' =
          [P1 |-> P1_sweeps(args.I, args.A, args.t, args.d, 0, args.sweeps),
           P4 |-> P4_sweeps(P4_init("wraparound", args.A, args.I, args.d), args.A,
                            "wraparound", args.t, args.d, 0, args.sweeps)]
    /\ UNCHANGED <<pgm, args>> /\ UNCHANGED progVars

SpecEmulate == InitEmulate /\ [][ApplyEmulate]_vars

(* calcDeltaE of the four toroidal programs at every site of a lattice L of  *)
(* side g, and calc_lattice_energy of Program 1 on L and on L with one site  *)
(* negated.                                                                  *)
TorusArgs == UNION {[fn : {"torus"}, g : {g}, L : Lattices(g)] : g \in 1 .. MaxGrid}

InitTorus == \E a \in TorusArgs : InitFn(a)

ApplyTorus ==
    /\ pgm = "fn" /\ args.fn = "torus" /\ op = "init"
    /\ op' = "calcDeltaE"
    /\ LET g == args.g
           L == args.L
           S == 0 .. g - 1
       IN  result' =
             [P1 |-> [x \in S |-> [y \in S |-> P1_calcDeltaE(L, g, x, y)]],
              P2 |-> [x \in S |-> [y \in S |-> P2_calcDeltaE(L, g, x, y)]],
              P3 |-> [x \in S |-> [y \in S |-> P3_calcDeltaE(L, g, x, y)]],
              P5 |-> [x \in S |-> [y \in S |-> calcDeltaE(L, g, x, y)]],
              energy |-> calc_lattice_energy(L, g),
              energyFlipped |->
                  [x \in S |-> [y \in S |-> calc_lattice_energy(Negated(L, x, y), g)]]]
    /\ UNCHANGED <<pgm, args>> /\ UNCHANGED progVars

SpecTorus == InitTorus /\ [][ApplyTorus]_vars

(* Program 4 after init() under each boundary rule: the interior I, the      *)
(* border built by the rule from the stream free, and calcDeltaE at every    *)
(* interior site.                                                            *)
HaloArgs ==
    UNION {[fn : {"halo"}, A : {A}, I : Lattices(A), rule : {rule}, free : BorderStreams(rule)] :
              <<A, rule>> \in (1 .. MaxGrid) \X BoundaryRules}

InitHalo == \E a \in HaloArgs : InitFn(a)

ApplyHalo ==
    /\ pgm = "fn" /\ args.fn = "halo" /\ op = "init"
    /\ op' = "P4_init"
    /\ LET L == P4_init(args.rule, args.A, args.I, args.free)
       IN  result' = [lattice |-> L,
                      deltaE |-> [x \in 1 .. args.A |-> [y \in 1 .. args.A |->
                                     P4_calcDeltaE(L, x, y)]]]
    /\ UNCHANGED <<pgm, args>> /\ UNCHANGED progVars

(* calcDeltaE in all five programs: the toroidal lattices, Program 4 after   *)
(* init() under the eight rules, and Program 4 running under the wraparound  *)
(* and twisted rules.                                                        *)
InitDeltaE == InitTorus \/ InitHalo \/ InitMirror
NextDeltaE == ApplyTorus \/ ApplyHalo \/ NextMirror
SpecDeltaE == InitDeltaE /\ [][NextDeltaE]_vars

-----------------------------------------------------------------------------
(* Whole sweeps.  Math.random() is one stream: the k-th call of a sweep      *)
(* returns the k-th draw of the stream draws, whether the call is made by a  *)
(* coordinate generator, by randomPermutation or by an acceptance rule.  A   *)
(* stream may hold the value DrawDen, the draw 1.0 of a stubbed random       *)
(* source.  A coordinate outside the lattice makes the first array access    *)
(* of updateSpin throw a TypeError, which ends the sweep where it stands.    *)

AllUp(g) == [x \in 0 .. g - 1 |-> [y \in 0 .. g - 1 |-> 1]]
StubStream == [k \in 1 .. MaxFreeDraws |-> DrawDen]
InGrid(xy, g) == xy.x \in 0 .. g - 1 /\ xy.y \in 0 .. g - 1

\* randomPermutation(n) as the array it returns: with j = n (the draw 1.0)
\* the swap reads the absent element p[n], written -1 here, and stores one
\* more element, so that the array has n + 1 elements
RECURSIVE randomPermutationArrayLoop(_, _, _, _, _)
randomPermutationArrayLoop(p, n, i, free, k) ==
    IF i > 1
    THEN LET j == RandomIndex(DrawAt(free, k), n)
             q == [p EXCEPT ![j] = p[i], ![i] = p[j]]
         IN  randomPermutationArrayLoop(q, n, i - 1, free, k + 1)
    ELSE p

randomPermutationArray(n, free) ==
    LET p0 == [k \in 0 .. n |-> IF k < n THEN k ELSE -1]
        p == randomPermutationArrayLoop(p0, n, n - 1, free, 1)
        grown == \E k \in 1 .. n - 2 : DrawAt(free, k) = DrawDen
    IN  [k \in 1 .. (IF grown THEN n + 1 ELSE n) |-> p[k - 1]]

\* x = Math.floor(r / gridSize), y = Math.floor(r % gridSize); NaN (here -1)
\* for the element undefined
CoordOf(r, g) == IF r < 0 THEN XY(-1, -1) ELSE XY(r \div g, r % g)

\* the number of calls of Math.random() a rule of Programs 2 and 5 makes at a
\* site with energy change deltaE
DrawsTaken(fn, deltaE) ==
    CASE fn = "M_rule" -> IF deltaE <= 0 THEN 0 ELSE 1
      [] fn = "G_rule" -> 1
      [] fn = "M_star_rule" -> IF deltaE < 0 THEN 0 ELSE 1
      [] OTHER -> 0

\* Program 5: the calls of updateSpin one sweep makes.  c = [kind, fn, t, g,
\* list, draws] is the configuration, list the coordinates of a generator
\* that draws nothing while it runs; s = [lattice, toBeFlipped, i, k, threw,
\* log]: the lattice, the staged flips, the coordinates treated, the draws
\* taken, and for every call of updateSpin its site, the deltaE it found and
\* the answer of the acceptor.
RECURSIVE P5_sweepLoop(_, _)
P5_sweepLoop(c, s) ==
    IF s.threw \/ s.i >= (IF c.kind = "random" THEN c.g * c.g ELSE Len(c.list)) THEN s
    ELSE LET xy == IF c.kind = "random"
                   THEN XY(RandomIndex(DrawAt(c.draws, s.k + 1), c.g),
                           RandomIndex(DrawAt(c.draws, s.k + 2), c.g))
                   ELSE c.list[s.i + 1]
             k1 == IF c.kind = "random" THEN s.k + 2 ELSE s.k
         IN  IF ~InGrid(xy, c.g) THEN [s EXCEPT !.threw = TRUE]
             ELSE LET r == updateSpin(s.lattice, Cleared(c.g), s.toBeFlipped, c.kind,
                                      c.fn, c.t, c.g, xy.x, xy.y, DrawAt(c.draws, k1 + 1))
                      deltaE == calcDeltaE(s.lattice, c.g, xy.x, xy.y)
                      flipSpin == acceptor(c.fn, deltaE, c.t, DrawAt(c.draws, k1 + 1))
                  IN  P5_sweepLoop(c, [lattice |-> r.lattice, toBeFlipped |-> r.toBeFlipped,
                                       i |-> s.i + 1, k |-> k1 + DrawsTaken(c.fn, deltaE),
                                       threw |-> FALSE,
                                       log |-> Append(s.log, [x |-> xy.x, y |-> xy.y,
                                                              deltaE |-> deltaE,
                                                              flip |-> flipSpin])])

\* Program 5: one sweep from a fresh generator, as the macrostep timer runs
\* it: updateSpin on every coordinate, then, when next() reports done,
\* simultaneousUpdate() in simultaneous mode
P5_sweep(L, g, kind, fn, t, perm, draws) ==
    LET n == g * g
        p == IF kind = "repermuted" THEN randomPermutationArray(n, draws) ELSE perm
        list == CASE kind \in {"permuted", "repermuted"} ->
                        [k \in 1 .. Len(p) |-> CoordOf(p[k], g)]
                  [] kind = "random" -> << >>
                  [] OTHER -> nextXYgen(kind, g, << >>, draws)
        k0 == IF kind = "repermuted" /\ n > 2 THEN n - 2 ELSE 0
        s == P5_sweepLoop([kind |-> kind, fn |-> fn, t |-> t, g |-> g, list |-> list,
                           draws |-> draws],
                          [lattice |-> L, toBeFlipped |-> Cleared(g), i |-> 0, k |-> k0,
                           threw |-> FALSE, log |-> << >>])
    IN  [lattice |-> IF kind = "simultaneous" /\ ~s.threw
                     THEN simultaneousUpdate(s.lattice, s.toBeFlipped, g) ELSE s.lattice,
         offered |-> s.i, threw |-> s.threw, log |-> s.log]

\* Program 2, runBatch: the calls of updateSpin; s = [lattice, i, k, threw]
RECURSIVE P2_runBatchLoop(_, _)
P2_runBatchLoop(c, s) ==
    IF s.threw \/ s.i >= c.g * c.g \/ c.kind \notin {"deterministic", "random"} THEN s
    ELSE LET xy == IF c.kind = "random"
                   THEN XY(RandomIndex(DrawAt(c.draws, s.k + 1), c.g),
                           RandomIndex(DrawAt(c.draws, s.k + 2), c.g))
                   ELSE XY(s.i % c.g, s.i \div c.g)
             k1 == IF c.kind = "random" THEN s.k + 2 ELSE s.k
         IN  IF ~InGrid(xy, c.g) THEN [s EXCEPT !.threw = TRUE]
             ELSE LET deltaE == P2_calcDeltaE(s.lattice, c.g, xy.x, xy.y)
                      flip == P2_updateSpin_accepts(c.fn, deltaE, c.t, DrawAt(c.draws, k1 + 1))
                  IN  P2_runBatchLoop(c, [lattice |-> IF flip THEN Negated(s.lattice, xy.x, xy.y)
                                                      ELSE s.lattice,
                                          i |-> s.i + 1, k |-> k1 + DrawsTaken(c.fn, deltaE),
                                          threw |-> FALSE])

P2_runBatch(L, g, kind, fn, t, draws) ==
    LET s == P2_runBatchLoop([kind |-> kind, fn |-> fn, t |-> t, g |-> g, draws |-> draws],
                             [lattice |-> L, i |-> 0, k |-> 0, threw |-> FALSE])
    IN  [lattice |-> s.lattice, offered |-> s.i, threw |-> s.threw]

\* Program 3: the visits of one sweep function.  c = [kind, t, g, list,
\* draws]; s = [lattice, shadow, i, k]: the lattice, shadowLattice, the
\* sites treated, the draws taken.
RECURSIVE P3_sweepLoop(_, _)
P3_sweepLoop(c, s) ==
    IF s.i >= c.g * c.g THEN s
    ELSE LET xy == IF c.kind = "random"
                   THEN XY(RandomIndex(DrawAt(c.draws, s.k + 1), c.g),
                           RandomIndex(DrawAt(c.draws, s.k + 2), c.g))
                   ELSE c.list[s.i + 1]
             k1 == IF c.kind = "random" THEN s.k + 2 ELSE s.k
             deltaE == P3_calcDeltaE(s.lattice, c.g, xy.x, xy.y)
             u == DrawAt(c.draws, k1 + 1)
             r == P3_simultaneousCell(s.lattice, s.shadow, c.g, c.t, xy.x, xy.y, u)
         IN  P3_sweepLoop(c,
                [lattice |-> IF c.kind = "simultaneous" THEN r.lattice
                             ELSE IF P3_updateSpin_accepts(deltaE, c.t, u)
                                  THEN Negated(s.lattice, xy.x, xy.y) ELSE s.lattice,
                 shadow |-> IF c.kind = "simultaneous" THEN r.shadow ELSE s.shadow,
                 i |-> s.i + 1,
                 k |-> k1 + (IF deltaE <= 0 THEN 0 ELSE 1)])

\* Program 3, algoList[kind].fn(): the lattice after the sweep
P3_sweep(L, g, kind, t, perm, draws) ==
    LET n == g * g
        list == IF kind = "random" THEN << >>
                ELSE P3_sweepCoords(kind, g, perm, draws)
        k0 == IF kind = "repermuted" /\ n > 2 THEN n - 2 ELSE 0
        s == P3_sweepLoop([kind |-> kind, t |-> t, g |-> g, list |-> list, draws |-> draws],
                          [lattice |-> L,
                           shadow |-> [x \in 0 .. g - 1 |-> [y \in 0 .. g - 1 |-> 0]],
                           i |-> 0, k |-> k0])
    IN  IF kind = "simultaneous" THEN s.shadow ELSE s.lattice

\* Program 5, magnetization() and local_correlations(), as the fractions
\* n / d they return
RECURSIVE SumOver(_, _, _)
SumOver(f, g, k) ==
    IF k >= g * g THEN 0 ELSE f[k \div g][k % g] + SumOver(f, g, k + 1)

magnetization(L, g) == [n |-> SumOver(L, g, 0), d |-> g * g]
local_correlations(L, g) ==
    [n |-> SumOver([x \in 0 .. g - 1 |-> [y \in 0 .. g - 1 |-> calcDeltaE(L, g, x, y)]], g, 0),
     d |-> 8 * g * g]

(* One sweep of Program 2 or Program 5 from the all-up lattice with          *)
(* Math.random() stubbed to return 1.0 at every call.  permFree is the       *)
(* stream init() drew thePermutation from: the stub, or an ordinary stream.  *)
StubArgs ==
    [fn : {"stub"}, prog : {"P5"}, kind : P5VisitSeqs \ {"permuted"}, rule : AcceptanceFns,
     t : Temps, g : 1 .. MaxGrid, permFree : {ZeroStream}]
    \cup
    [fn : {"stub"}, prog : {"P5"}, kind : {"permuted"}, rule : AcceptanceFns,
     t : Temps, g : 1 .. MaxGrid, permFree : {ZeroStream, StubStream}]
    \cup
    [fn : {"stub"}, prog : {"P2"}, kind : {"deterministic", "random"}, rule : AcceptanceFns,
     t : Temps, g : 1 .. MaxGrid, permFree : {ZeroStream}]

InitStub == \E a \in StubArgs : InitFn(a)

ApplyStub ==
    /\ pgm = "fn" /\ args.fn = "stub" /\ op = "init"
    /\ op' = "stubbedSweep"
    /\ LET g == args.g
           L == AllUp(g)
           perm == randomPermutationArray(g * g, args.permFree)
           r == IF args.prog = "P5"
                THEN P5_sweep(L, g, args.kind, args.rule, args.t, perm, StubStream)
                ELSE P2_runBatch(L, g, args.kind, args.rule, args.t, StubStream)
       IN  result' = [lattice |-> r.lattice, offered |-> r.offered, threw |-> r.threw,
                      deltaE |-> [x \in 0 .. g - 1 |-> [y \in 0 .. g - 1 |->
                                    IF args.prog = "P5" THEN calcDeltaE(L, g, x, y)
                                    ELSE P2_calcDeltaE(L, g, x, y)]],
                      magnetization |-> magnetization(r.lattice, g)]
    /\ UNCHANGED <<pgm, args>> /\ UNCHANGED progVars

SpecStub == InitStub /\ [][ApplyStub]_vars

(* One sweep of Program 5 under the M-rule on the lattice of side MaxSeqGrid  *)
(* that is all up except for the site (1, 1).  permFree is the stream init() *)
(* drew thePermutation from, draws the stream of the sweep.                  *)
OneDown(g) == [x \in 0 .. g - 1 |-> [y \in 0 .. g - 1 |-> IF x = 1 /\ y = 1 THEN -1 ELSE 1]]
PermStreams == [1 .. MaxFreeDraws -> {0, 2, DrawDen - 1}]
SweepStreams == [1 .. MaxFreeDraws -> {0, 1, DrawDen \div 2, DrawDen - 1}]

SingleArgs ==
    [fn : {"single"}, kind : P5VisitSeqs \ {"permuted"}, t : Temps, g : {MaxSeqGrid},
     permFree : {ZeroStream}, draws : SweepStreams]
    \cup
    [fn : {"single"}, kind : {"permuted"}, t : Temps, g : {MaxSeqGrid},
     permFree : PermStreams, draws : SweepStreams]

InitSingle == \E a \in SingleArgs : InitFn(a)

ApplySingle ==
    /\ pgm = "fn" /\ args.fn = "single" /\ op = "init"
    /\ op' = "singleSweep"
    /\ LET g == args.g
           L == OneDown(g)
           r == P5_sweep(L, g, args.kind, "M_rule", args.t,
                         randomPermutationArray(g * g, args.permFree), args.draws)
       IN  result' = [lattice |-> r.lattice, log |-> r.log, threw |-> r.threw,
                      deltaE |-> calcDeltaE(L, g, 1, 1),
                      magnetization |-> magnetization(r.lattice, g),
                      local_correlations |-> local_correlations(r.lattice, g)]
    /\ UNCHANGED <<pgm, args>> /\ UNCHANGED progVars

SpecSingle == InitSingle /\ [][ApplySingle]_vars

(* One typewriter sweep and one simultaneous sweep of Program 3 from the     *)
(* same lattice, at the same temperature, with the same stream of draws:     *)
(* every lattice of side 2 .. MaxGrid, and the alternating lattice of side   *)
(* MaxSeqGrid.                                                               *)
Alternating(g) == [x \in 0 .. g - 1 |-> [y \in 0 .. g - 1 |-> IF (x + y) % 2 = 0 THEN 1 ELSE -1]]

PairArgs ==
    UNION {[fn : {"pair"}, g : {g}, L : Lattices(g), t : Temps,
            draws : [1 .. MaxFreeDraws -> {0, DrawDen - 1}]] : g \in 2 .. MaxGrid}
    \cup
    [fn : {"pair"}, g : {MaxSeqGrid}, L : {Alternating(MaxSeqGrid)}, t : Temps,
     draws : SweepStreams]

InitPair == \E a \in PairArgs : InitFn(a)

ApplyPair ==
    /\ pgm = "fn" /\ args.fn = "pair" /\ op = "init"
    /\ op' = "sweepPair"
    /\ result' = [typewriter |-> P3_sweep(args.L, args.g, "typewriter", args.t,
                                          << >>, args.draws),
                  simultaneous |-> P3_sweep(args.L, args.g, "simultaneous", args.t,
                                            << >>, args.draws)]
    /\ UNCHANGED <<pgm, args>> /\ UNCHANGED progVars

SpecPair == InitPair /\ [][ApplyPair]_vars

(* A request with a selector value, handled from the globals s = [lattice,   *)
(* state, timer, selector, binding, iterator, drawLattice]: selector is the  *)
(* global the handler assigns the value to, binding the function looked up   *)
(* with it in Program 5 (the name of the entry, "undefined" where the table  *)
(* has none),                                                                *)
(* iterator the generator object, drawLattice the function the name is bound *)
(* to.  The handler returns [after, threw, logged]: the globals afterwards,  *)
(* whether it ended in an uncaught TypeError, whether it wrote to the        *)
(* console.                                                                  *)

UnknownSelector == "bogus"

\* Program 5, chooseVisitSequence with this.value = v
chooseVisitSequence(s, v) ==
    IF v \in P5VisitSeqs
    THEN [after |-> [s EXCEPT !.selector = v, !.binding = v,
                              !.iterator = P5_newIterator(v)],
          threw |-> FALSE, logged |-> FALSE]
    ELSE [after |-> [s EXCEPT !.selector = v, !.binding = "undefined"],
          threw |-> TRUE, logged |-> FALSE]

\* Program 5, chooseAcceptanceFn with this.value = v
chooseAcceptanceFn(s, v) ==
    [after |-> [s EXCEPT !.selector = v,
                         !.binding = IF v \in AcceptanceFns THEN v ELSE "undefined"],
     threw |-> FALSE, logged |-> FALSE]

\* Program 3, stepResponse(algo, T1, T2, T1_steps, T2_steps, burnin, 0): with
\* reps = 0 no sweep runs; I is the lattice init() draws
stepResponse(s, algo, I) ==
    IF algo \in P3Algorithms
    THEN [after |-> [s EXCEPT !.lattice = I, !.state = "scrambled"],
          threw |-> FALSE, logged |-> FALSE]
    ELSE [after |-> [s EXCEPT !.drawLattice = "function(i, j) { ; }"],
          threw |-> TRUE, logged |-> FALSE]

\* Program 4, chooseBoundary with this.value = v, the algorithm being
\* 'metropolis'
chooseBoundary(s, v, A, free) ==
    IF v \in BoundaryRules
    THEN [after |-> [s EXCEPT !.selector = v,
                              !.lattice = boundaryList(v, s.lattice, A, free),
                              !.timer = IF s.state = "running" THEN "runMetro" ELSE @],
          threw |-> FALSE, logged |-> FALSE]
    ELSE [after |-> [s EXCEPT !.selector = v], threw |-> TRUE, logged |-> FALSE]

\* Program 1, init(pattern)
init(s, pattern, g, I) ==
    [after |-> [s EXCEPT !.state = "scrambled",
                         !.lattice = P1_init(pattern, s.lattice, g, I)],
     threw |-> FALSE, logged |-> pattern \notin P1Patterns]

\* the globals before the request
GlobalsBefore(L, st, tm, sel, bind, it) ==
    [lattice |-> L, state |-> st, timer |-> tm, selector |-> sel, binding |-> bind,
     iterator |-> it, drawLattice |-> "drawLattice"]

UnknownArgs ==
    LET g == MaxMicroGrid
    IN  {[fn |-> "unknown", handler |-> "chooseVisitSequence", value |-> v, g |-> g,
          I |-> L, s |-> GlobalsBefore(L, st, IF st = "busy" THEN "runForever" ELSE NoTimer,
                                       sel, sel, [kind |-> sel, i |-> 1, p |-> << >>])] :
            v \in SimulSeqs \cup {UnknownSelector}, L \in Lattices(g),
            st \in {"idle", "busy"}, sel \in SimulSeqs}
        \cup
        {[fn |-> "unknown", handler |-> "chooseAcceptanceFn", value |-> v, g |-> g,
          I |-> L, s |-> GlobalsBefore(L, st, IF st = "busy" THEN "runForever" ELSE NoTimer,
                                       sel, sel, NA)] :
            v \in AcceptanceFns \cup {UnknownSelector}, L \in Lattices(g),
            st \in {"idle", "busy"}, sel \in {"M_rule"}}
        \cup
        {[fn |-> "unknown", handler |-> "stepResponse", value |-> v, g |-> g,
          I |-> I, s |-> GlobalsBefore(AllUp(g), st, NoTimer, sel, NA, NA)] :
            v \in {"typewriter", "simultaneous", UnknownSelector}, I \in Lattices(g),
            st \in {"scrambled", "paused"}, sel \in {"typewriter"}}
        \cup
        {[fn |-> "unknown", handler |-> "chooseBoundary", value |-> v, g |-> 1,
          I |-> I, s |-> GlobalsBefore(P4_init(sel, 1, I, ZeroStream), st,
                                       IF st = "running" THEN "runMetro" ELSE NoTimer,
                                       sel, NA, NA)] :
            v \in BoundaryRules \cup {UnknownSelector}, I \in Lattices(1),
            st \in {"paused", "running"}, sel \in {"wraparound", "up"}}
        \cup
        {[fn |-> "unknown", handler |-> "init", value |-> v, g |-> g,
          I |-> I, s |-> GlobalsBefore(AllUp(g), st, NoTimer, "metro", NA, NA)] :
            v \in P1Patterns \cup {UnknownSelector}, I \in Lattices(g),
            st \in {"scrambled", "paused"}}

InitUnknown == \E a \in UnknownArgs : InitFn(a)

ApplyUnknown ==
    /\ pgm = "fn" /\ args.fn = "unknown" /\ op = "init"
    /\ op' = "selectorRequest"
    /\ result' =
          CASE args.handler = "chooseVisitSequence" -> chooseVisitSequence(args.s, args.value)
            [] args.handler = "chooseAcceptanceFn" -> chooseAcceptanceFn(args.s, args.value)
            [] args.handler = "stepResponse" -> stepResponse(args.s, args.value, args.I)
            [] args.handler = "chooseBoundary" ->
                  chooseBoundary(args.s, args.value, args.g, ZeroStream)
            [] args.handler = "init" -> init(args.s, args.value, args.g, args.I)
    /\ UNCHANGED <<pgm, args>> /\ UNCHANGED progVars

SpecUnknown == InitUnknown /\ [][ApplyUnknown]_vars

-----------------------------------------------------------------------------
(* The measurement harnesses, which are called from the console and run to   *)
(* completion: equilibriumProperties and temperatureStep of Program 1,       *)
(* stepResponse of Programs 2, 3 and 4.  The n-th call the harness makes     *)
(* that draws random numbers (init, a sweep, a border construction) reads    *)
(* the stream of the run rotated by n.                                       *)

MathAbs(v) == IF v < 0 THEN 0 - v ELSE v

\* F applied to the value of v, v being evaluated once
Bind(v, F(_)) == CHOOSE r \in {F(x) : x \in {v}} : TRUE

Rot(d, n) == [k \in 1 .. Len(d) |-> DrawAt(d, k + n)]

\* the outcome of the coin flips of init(): cell k takes the k-th draw
Scrambled(g, d) ==
    [x \in 0 .. g - 1 |-> [y \in 0 .. g - 1 |->
        IF coinFlip(DrawAt(d, 1 + x * g + y)) THEN 1 ELSE -1]]

\* the same for the loops of Programs 3 and 4: for y, for x
ScrambledByRows(g, d) ==
    [x \in 0 .. g - 1 |-> [y \in 0 .. g - 1 |->
        IF coinFlip(DrawAt(d, 1 + y * g + x)) THEN 1 ELSE -1]]

\* Program 1, runMetro(): the loop on the sites, i of them treated, k draws taken
RECURSIVE P1_runMetroLoop(_, _, _, _, _, _)
P1_runMetroLoop(L, g, t, d, i, k) ==
    IF i >= g * g THEN L
    ELSE LET x == i % g
             y == i \div g
             deltaE == P1_calcDeltaE(L, g, x, y)
         IN  P1_runMetroLoop(IF P1_runMetro_accepts(deltaE, t, DrawAt(d, k + 1))
                             THEN Negated(L, x, y) ELSE L,
                             g, t, d, i + 1, IF deltaE <= 0 THEN k ELSE k + 1)

P1_runMetro(L, g, t, d) == P1_runMetroLoop(L, g, t, d, 0, 0)

\* Program 1, runGlauber(): three draws for every turn of the loop
RECURSIVE P1_runGlauberLoop(_, _, _, _, _)
P1_runGlauberLoop(L, g, t, d, i) ==
    IF i >= g * g THEN L
    ELSE LET x == RandomIndex(DrawAt(d, 3 * i + 1), g)
             y == RandomIndex(DrawAt(d, 3 * i + 2), g)
             deltaE == P1_calcDeltaE(L, g, x, y)
         IN  P1_runGlauberLoop(IF P1_runGlauber_accepts(deltaE, t, DrawAt(d, 3 * i + 3))
                               THEN Negated(L, x, y) ELSE L,
                               g, t, d, i + 1)

P1_runGlauber(L, g, t, d) == P1_runGlauberLoop(L, g, t, d, 0)

\* Program 4, runMetro(): the loop on the active sites, then
\* updateBorderMacrostep()
RECURSIVE P4_runMetroLoop(_, _, _, _, _, _, _)
P4_runMetroLoop(L, A, rule, t, d, i, k) ==
    IF i >= A * A THEN L
    ELSE LET x == 1 + (i % A)
             y == 1 + (i \div A)
             deltaE == P4_calcDeltaE(L, x, y)
         IN  P4_runMetroLoop(IF P4_runMetro_accepts(deltaE, t, DrawAt(d, k + 1))
                             THEN updateBorderMicrostep(rule, Negated(L, x, y), A, x, y)
                             ELSE L,
                             A, rule, t, d, i + 1, IF deltaE <= 0 THEN k ELSE k + 1)

P4_runMetro(L, A, rule, t, d) ==
    updateBorderMacrostep(rule, P4_runMetroLoop(L, A, rule, t, d, 0, 0), A, Rot(d, 1))

\* Program 4, runGlauber()
RECURSIVE P4_runGlauberLoop(_, _, _, _, _, _)
P4_runGlauberLoop(L, A, rule, t, d, i) ==
    IF i >= A * A THEN L
    ELSE LET x == 1 + RandomIndex(DrawAt(d, 3 * i + 1), A)
             y == 1 + RandomIndex(DrawAt(d, 3 * i + 2), A)
             deltaE == P4_calcDeltaE(L, x, y)
         IN  P4_runGlauberLoop(IF P4_runGlauber_accepts(deltaE, t, DrawAt(d, 3 * i + 3))
                               THEN updateBorderMicrostep(rule, Negated(L, x, y), A, x, y)
                               ELSE L,
                               A, rule, t, d, i + 1)

P4_runGlauber(L, A, rule, t, d) ==
    updateBorderMacrostep(rule, P4_runGlauberLoop(L, A, rule, t, d, 0), A, Rot(d, 1))

\* Program 4, magnetization(): the sum runs over the active region
P4_magnetization(L, A) ==
    [n |-> SumOver([x \in 0 .. A - 1 |-> [y \in 0 .. A - 1 |-> L[x + 1][y + 1]]], A, 0),
     d |-> A * A]

(* The globals a harness reads and writes are held in a record h.  The names *)
(* drawLattice and drawBorder hold the function they are bound to: their own *)
(* name stands for the function declared under it, NoOp for the function     *)
(* expression the harness puts in its place.  n counts the calls that drew   *)
(* random numbers; Ms is the harness's array of sums (Ms, data or Hs in the  *)
(* sources), kept as the integer sums of |M| * N; log is the sequence of     *)
(* events of the run, one for every call of init, of a sweep function and of *)
(* a border construction.                                                    *)

NoOp == "function() { ; }"

HarnessGlobals(L, st, t, algo, visit, accept, rule) ==
    [lattice |-> L, state |-> st, temperature |-> t, algorithm |-> algo,
     visitationFn |-> visit, acceptanceFn |-> accept, boundaryRule |-> rule,
     itinerary |-> "undefined", thePermutation |-> << >>,
     drawLattice |-> "drawLattice", drawBorder |-> "drawBorder",
     n |-> 0, Ms |-> << >>, log |-> << >>]

\* an event: what was called (e, fn), in which repetition (0: before the
\* loop), for which entry of the sums (0: none), under which globals, the
\* functions that painted on the canvas, and |M| * N afterwards.  called are
\* the callbacks the function calls by name, direct the functions that paint
\* without going through a callback.
Event(h, e, fn, rep, slot, called, direct, absM) ==
    [e |-> e, fn |-> fn, rep |-> rep, slot |-> slot, T |-> h.temperature,
     visit |-> h.visitationFn, accept |-> h.acceptanceFn, rule |-> h.boundaryRule,
     paints |-> {c \in called : h[c] = c} \cup direct, absM |-> absM]

\* |magnetization()| * N of the program prog on the lattice L
AbsM(prog, L, g) ==
    MathAbs(IF prog = "P4" THEN P4_magnetization(L, g).n ELSE magnetization(L, g).n)

\* init() of the program c.prog, called in repetition rep
HarnessInit(c, h0, rep, pattern) ==
  Bind(h0, LAMBDA h :
    LET d == Rot(c.draws, h.n)
        n == c.g * c.g
        L == CASE c.prog = "P1" -> P1_init(pattern, h.lattice, c.g, Scrambled(c.g, d))
               [] c.prog = "P2" -> P2_init(pattern, h.lattice, c.g, Scrambled(c.g, d))
               [] c.prog = "P3" -> ScrambledByRows(c.g, Rot(d, IF n > 2 THEN n - 2 ELSE 0))
               [] c.prog = "P4" -> P4_init(h.boundaryRule, c.g, ScrambledByRows(c.g, d),
                                           Rot(d, n))
        called == IF c.prog = "P4" THEN {"drawLattice", "drawBorder"} ELSE {"drawLattice"}
        direct == IF c.prog = "P4" THEN {"makeZeroCorners"} ELSE {}
    IN  [h EXCEPT !.lattice = L, !.state = "scrambled", !.n = @ + 1,
                  !.thePermutation = IF c.prog = "P3" THEN randomPermutation(n, d) ELSE @,
                  !.log = Append(@, Event(h, "init", "init", rep, 0, called, direct,
                                          AbsM(c.prog, L, c.g)))])

\* fn() of the harness: the sweep function c.fn of the program c.prog, then
\* the addition to entry slot of the sums when slot > 0
HarnessSweep(c, h0, rep, slot) ==
  Bind(h0, LAMBDA h :
    LET d == Rot(c.draws, h.n)
        swept == CASE c.prog = "P1" ->
                    IF c.fn = "runMetro"
                    THEN P1_runMetro(h.lattice, c.g, h.temperature, d)
                    ELSE P1_runGlauber(h.lattice, c.g, h.temperature, d)
               [] c.prog = "P2" ->
                    P2_runBatch(h.lattice, c.g, h.visitationFn, h.acceptanceFn,
                                h.temperature, d).lattice
               [] c.prog = "P3" ->
                    P3_sweep(h.lattice, c.g, c.fn, h.temperature, h.thePermutation, d)
               [] c.prog = "P4" ->
                    IF c.fn = "runMetro"
                    THEN P4_runMetro(h.lattice, c.g, h.boundaryRule, h.temperature, d)
                    ELSE P4_runGlauber(h.lattice, c.g, h.boundaryRule, h.temperature, d)
        called == IF c.prog = "P4" THEN {"drawLattice", "drawBorder"} ELSE {"drawLattice"}
    IN  Bind(swept, LAMBDA L :
          Bind(AbsM(c.prog, L, c.g), LAMBDA absM :
            [h EXCEPT !.lattice = L, !.n = @ + 1,
                      !.Ms = IF slot > 0 THEN [@ EXCEPT ![slot] = @ + absM] ELSE @,
                      !.log = Append(@, Event(h, "sweep", c.fn, rep, slot, called, {},
                                              absM))])))

\* for (let j = 0; j < count; j++) { fn(); Ms[base + j] += .. }; base < 0 for
\* the loop that throws the data away
RECURSIVE RunSweeps(_, _, _, _, _, _)
RunSweeps(c, h, rep, count, base, j) ==
    IF j >= count THEN h
    ELSE RunSweeps(c, HarnessSweep(c, h, rep, IF base < 0 THEN 0 ELSE base + j + 1),
                   rep, count, base, j + 1)

\* a repetition that leaves the temperature where the last one ended
StepRepetitionWithoutReset(c, h, rep) ==
    LET h1 == RunSweeps(c, h, rep, c.burnin, -1, 0)
        h2 == RunSweeps(c, h1, rep, c.T1_steps, 0, 0)
    IN  RunSweeps(c, [h2 EXCEPT !.temperature = c.T2], rep, c.T2_steps, c.T1_steps, 0)

\* the body of the loop on the repetitions that the temperature-step
\* harnesses share: temperature = T1, burnin sweeps, T1_steps sweeps,
\* temperature = T2, T2_steps sweeps
StepRepetition(c, h, rep) ==
    LET h1 == RunSweeps(c, [h EXCEPT !.temperature = c.T1], rep, c.burnin, -1, 0)
        h2 == RunSweeps(c, h1, rep, c.T1_steps, 0, 0)
    IN  RunSweeps(c, [h2 EXCEPT !.temperature = c.T2], rep, c.T2_steps, c.T1_steps, 0)

\* x / reps for every x of the sums, as a double: M = |sum| / N
Means(Ms, N, reps) ==
    [j \in 1 .. Len(Ms) |-> IF reps = 0 THEN NaN ELSE Fin(Ms[j], N * reps)]

\* (x / reps).toFixed(4): the decimal with four digits nearest to the mean,
\* as its count of ten-thousandths; "NaN" for NaN
toFixed4(v) ==
    IF v.tag = "fin" THEN (20000 * v.n + v.d) \div (2 * v.d) ELSE "NaN"

Zeros(n) == [j \in 1 .. n |-> 0]

\* what a harness leaves: the globals afterwards, the events, the means it
\* computed, the value it returned (NA for undefined), whether it ended in an
\* uncaught exception
HarnessResult(h, series, returned, threw) ==
    [after |-> h, log |-> h.log, series |-> series, returned |-> returned, threw |-> threw]

\* Math.sqrt(sum of the squared deviates / (steps - 1)) for the sums Ms of
\* equilibriumProperties: with a = Ms[j], D = N * reps and S the sum of the
\* a, the mean is S / (D * steps) and the deviate of entry j is
\* ((a * steps - S) / (D * steps))^2.  A quotient 0 / 0 is NaN.
RECURSIVE SumSeq(_, _)
SumSeq(q, j) == IF j > Len(q) THEN 0 ELSE q[j] + SumSeq(q, j + 1)

Quotient(n, d) ==
    IF d = 0 THEN (IF n = 0 THEN NaN ELSE Infinity) ELSE Fin(n, d)

MathSqrt(v) == IF v.tag = "fin" THEN [v EXCEPT !.tag = "sqrt"] ELSE v

SampleSdev(Ms, N, reps, steps) ==
    LET S == SumSeq(Ms, 1)
        D == N * reps
        deviates == [j \in 1 .. Len(Ms) |-> (Ms[j] * steps - S) * (Ms[j] * steps - S)]
    IN  IF reps = 0 THEN NaN
        ELSE MathSqrt(Quotient(SumSeq(deviates, 1), D * steps * D * steps * (steps - 1)))

\* Program 1, equilibriumProperties(algo, initState, T, burnin, steps, reps)
\* called with the globals h0 on a lattice of side g.  With steps = 0 the
\* list of energies is empty and E_results[E_results.length - 1].toString()
\* throws a TypeError before any statistic is computed.
RECURSIVE equilibriumPropertiesLoop(_, _, _)
equilibriumPropertiesLoop(c, h, i) ==
    IF i >= c.reps THEN h
    ELSE LET h1 == HarnessInit(c, h, i + 1, c.initState)
             h2 == RunSweeps(c, h1, i + 1, c.burnin, -1, 0)
         IN  equilibriumPropertiesLoop(c, RunSweeps(c, h2, i + 1, c.steps, 0, 0), i + 1)

equilibriumProperties(h0, g, draws, algo, initState, T, burnin, steps, reps) ==
    LET c == [prog |-> "P1", g |-> g, draws |-> draws,
              fn |-> IF algo = "metro" THEN "runMetro" ELSE "runGlauber",
              initState |-> initState, burnin |-> burnin, steps |-> steps, reps |-> reps]
        h1 == [h0 EXCEPT !.drawLattice = NoOp, !.temperature = T, !.Ms = Zeros(steps)]
    IN  Bind(equilibriumPropertiesLoop(c, h1, 0), LAMBDA h2 :
          LET h3 == [h2 EXCEPT !.drawLattice = h0.drawLattice]
              M_results == Means(h3.Ms, g * g, reps)
              M_mean == IF reps = 0 THEN NaN
                        ELSE Quotient(SumSeq(h3.Ms, 1), g * g * reps * steps)
              M_sdev == SampleSdev(h3.Ms, g * g, reps, steps)
          IN  IF steps = 0
              THEN HarnessResult(h3, M_results, NA, TRUE)
              ELSE HarnessResult(h3, M_results, [M_mean |-> M_mean, M_sdev |-> M_sdev],
                                 FALSE))

\* Program 1, temperatureStep(algo, initState, T1, T2, T1_steps, T2_steps,
\* glom, burnin, reps).  After the loop the means are computed, and the
\* first assignment to outputDiv, outputDiv.innerHTML = R-str, reads the
\* undeclared name R: the function ends in a ReferenceError (or, with no
\* recorded sweep at all, in the TypeError of R_short[-1].toFixed).
RECURSIVE temperatureStepLoop(_, _, _)
temperatureStepLoop(c, h, i) ==
    IF i >= c.reps THEN h
    ELSE temperatureStepLoop(c, StepRepetition(c, HarnessInit(c, h, i + 1, c.initState),
                                               i + 1), i + 1)

temperatureStep(h0, g, draws, algo, initState, T1, T2, T1_steps, T2_steps, burnin, reps) ==
    LET c == [prog |-> "P1", g |-> g, draws |-> draws,
              fn |-> IF algo = "metro" THEN "runMetro" ELSE "runGlauber",
              initState |-> initState, T1 |-> T1, T2 |-> T2, T1_steps |-> T1_steps,
              T2_steps |-> T2_steps, burnin |-> burnin, reps |-> reps]
        h1 == [h0 EXCEPT !.drawLattice = NoOp, !.Ms = Zeros(T1_steps + T2_steps)]
    IN  Bind(temperatureStepLoop(c, h1, 0), LAMBDA h2 :
          LET h3 == [h2 EXCEPT !.drawLattice = h0.drawLattice]
          IN  HarnessResult(h3, Means(h3.Ms, g * g, reps), NA, TRUE))

\* Program 2, stepResponse(visitFn, acceptFn, T1, T2, T1_steps, T2_steps,
\* burnin, reps): itinerary = visitFn makes a global of that name, which no
\* function reads; init("scrambled") runs once, before the loop
RECURSIVE P2_stepResponseLoop(_, _, _)
P2_stepResponseLoop(c, h, i) ==
    IF i >= c.reps THEN h
    ELSE P2_stepResponseLoop(c, StepRepetition(c, h, i + 1), i + 1)

P2_stepResponse(h0, g, draws, visitFn, acceptFn, T1, T2, T1_steps, T2_steps, burnin, reps) ==
    LET c == [prog |-> "P2", g |-> g, draws |-> draws, fn |-> "runBatch",
              T1 |-> T1, T2 |-> T2, T1_steps |-> T1_steps,
              T2_steps |-> T2_steps, burnin |-> burnin, reps |-> reps]
        h1 == [h0 EXCEPT !.itinerary = visitFn, !.acceptanceFn = acceptFn,
                         !.drawLattice = NoOp, !.Ms = Zeros(T1_steps + T2_steps)]
    IN  Bind(P2_stepResponseLoop(c, HarnessInit(c, h1, 0, "scrambled"), 0), LAMBDA h2 :
          LET h3 == [h2 EXCEPT !.drawLattice = h0.drawLattice]
              results == [j \in 1 .. Len(h3.Ms) |-> toFixed4(Means(h3.Ms, g * g, reps)[j])]
          IN  HarnessResult(h3, Means(h3.Ms, g * g, reps), results, FALSE))

\* Program 3, stepResponse(algo, T1, T2, T1_steps, T2_steps, burnin, reps)
\* for an algo of algoList: fn = algoList[algo].fn; init() runs once, before
\* the loop
RECURSIVE P3_stepResponseLoop(_, _, _)
P3_stepResponseLoop(c, h, i) ==
    IF i >= c.reps THEN h
    ELSE P3_stepResponseLoop(c, StepRepetition(c, h, i + 1), i + 1)

P3_stepResponse(h0, g, draws, algo, T1, T2, T1_steps, T2_steps, burnin, reps) ==
    LET c == [prog |-> "P3", g |-> g, draws |-> draws, fn |-> algo,
              T1 |-> T1, T2 |-> T2, T1_steps |-> T1_steps,
              T2_steps |-> T2_steps, burnin |-> burnin, reps |-> reps]
        h1 == [h0 EXCEPT !.drawLattice = NoOp, !.Ms = Zeros(T1_steps + T2_steps)]
    IN  Bind(P3_stepResponseLoop(c, HarnessInit(c, h1, 0, "scrambled"), 0), LAMBDA h2 :
          LET h3 == [h2 EXCEPT !.drawLattice = h0.drawLattice]
          IN  HarnessResult(h3, Means(h3.Ms, g * g, reps), NA, FALSE))

\* Program 4, stepResponse(algo, boundary, T1, T2, T1_steps, T2_steps,
\* burnin, reps) on an active region of side A: fn is chosen by the global
\* algorithm; init() runs once, before the loop, under the boundary rule of
\* the selector; every repetition sets boundaryRule = boundary and calls
\* boundaryList[boundary]()
RECURSIVE P4_stepResponseLoop(_, _, _)
P4_stepResponseLoop(c, h0, i) ==
  Bind(h0, LAMBDA h :
    IF i >= c.reps THEN h
    ELSE LET d == Rot(c.draws, h.n)
             h1 == [h EXCEPT !.boundaryRule = c.boundary]
         IN  Bind(boundaryList(c.boundary, h.lattice, c.g, d), LAMBDA L :
               P4_stepResponseLoop(c,
                   StepRepetition(c,
                       [h1 EXCEPT !.lattice = L, !.n = @ + 1,
                                  !.log = Append(@, Event(h1, "border", "boundaryList",
                                                          i + 1, 0, {}, {},
                                                          AbsM("P4", L, c.g)))],
                       i + 1),
                   i + 1)))

P4_stepResponse(h0, A, draws, algo, boundary, T1, T2, T1_steps, T2_steps, burnin, reps) ==
    LET c == [prog |-> "P4", g |-> A, draws |-> draws, boundary |-> boundary,
              fn |-> IF h0.algorithm = "metropolis" THEN "runMetro" ELSE "runGlauber",
              T1 |-> T1, T2 |-> T2, T1_steps |-> T1_steps,
              T2_steps |-> T2_steps, burnin |-> burnin, reps |-> reps]
        h1 == [h0 EXCEPT !.drawLattice = NoOp, !.drawBorder = NoOp,
                         !.Ms = Zeros(T1_steps + T2_steps)]
    IN  Bind(P4_stepResponseLoop(c, HarnessInit(c, h1, 0, "scrambled"), 0), LAMBDA h2 :
          LET h3 == [h2 EXCEPT !.drawLattice = h0.drawLattice, !.drawBorder = h0.drawBorder]
          IN  HarnessResult(h3, Means(h3.Ms, A * A, reps), NA, FALSE))

(* One call of a harness from the console, on a lattice of side              *)
(* MaxMicroGrid (an active region of that side in Program 4), the selectors  *)
(* and the temperature slider being as in before.                           *)

MaxReps == 2          \* a harness runs 1 .. MaxReps repetitions
MaxSteps == 2         \* 0 .. MaxSteps recorded sweeps at the first temperature
MaxBurnin == 1        \* 0 .. MaxBurnin sweeps thrown away

\* every draw low, every draw high, high and low in turn
HarnessStreams ==
    {ZeroStream, [k \in 1 .. MaxFreeDraws |-> DrawDen - 1],
     [k \in 1 .. MaxFreeDraws |-> IF k % 2 = 1 THEN DrawDen - 1 ELSE 0]}
\* (T1, T2): a cold start that is heated, a warm start that is quenched
StepTemps == {<<ColdTemp, 1>>, <<1, ColdTemp>>}
SliderTemp == MaxTemp

Protocols ==
    [T : StepTemps, T1_steps : 0 .. MaxSteps, T2_steps : 0 .. 1,
     burnin : 0 .. MaxBurnin, reps : 1 .. MaxReps, draws : HarnessStreams]

HarnessArgs ==
    LET g == MaxMicroGrid
        torus == HarnessGlobals(AllUp(g), "paused", SliderTemp, NA, NA, NA, NA)
    IN  {[fn |-> "harness", harness |-> "equilibriumProperties", g |-> g, p |-> p,
          algo |-> algo, initState |-> pattern, steps |-> p.T1_steps,
          before |-> [torus EXCEPT !.algorithm = "metro"]] :
            p \in Protocols, algo \in P1Algorithms, pattern \in {"scrambled", "plus"}}
        \cup
        {[fn |-> "harness", harness |-> "temperatureStep", g |-> g, p |-> p,
          algo |-> algo, initState |-> pattern,
          before |-> [torus EXCEPT !.algorithm = "metro"]] :
            p \in Protocols, algo \in P1Algorithms, pattern \in {"scrambled", "plus"}}
        \cup
        {[fn |-> "harness", harness |-> "P2_stepResponse", g |-> g, p |-> p,
          visitFn |-> visitFn, acceptFn |-> acceptFn,
          before |-> [torus EXCEPT !.visitationFn = visit, !.acceptanceFn = "M_rule"]] :
            p \in Protocols, visitFn \in P2VisitationFns, acceptFn \in {"M_rule", "G_rule"},
            visit \in {"deterministic"}}
        \cup
        {[fn |-> "harness", harness |-> "P3_stepResponse", g |-> g, p |-> p,
          algo |-> algo,
          before |-> [torus EXCEPT !.algorithm = "typewriter"]] :
            p \in Protocols, algo \in {"typewriter", "simultaneous", "permuted"}}
        \cup
        {[fn |-> "harness", harness |-> "P4_stepResponse", g |-> g, p |-> p,
          algo |-> algo, boundary |-> boundary,
          before |-> HarnessGlobals(P4_init(rule, g, AllUp(g), ZeroStream), "paused",
                                    SliderTemp, algorithm0, NA, NA, rule)] :
            p \in Protocols, algo \in P4Algorithms, boundary \in {"wraparound", "random"},
            algorithm0 \in P4Algorithms, rule \in {"zero"}}

InitHarness == \E a \in HarnessArgs : InitFn(a)

ApplyHarness ==
    /\ pgm = "fn" /\ args.fn = "harness" /\ op = "init"
    /\ op' = "harness"
    /\ LET p == args.p
           h0 == args.before
       IN  result' =
             CASE args.harness = "equilibriumProperties" ->
                    equilibriumProperties(h0, args.g, p.draws, args.algo, args.initState,
                                          p.T[1], p.burnin, args.steps, p.reps)
               [] args.harness = "temperatureStep" ->
                    temperatureStep(h0, args.g, p.draws, args.algo, args.initState,
                                    p.T[1], p.T[2], p.T1_steps, p.T2_steps, p.burnin, p.reps)
               [] args.harness = "P2_stepResponse" ->
                    P2_stepResponse(h0, args.g, p.draws, args.visitFn, args.acceptFn,
                                    p.T[1], p.T[2], p.T1_steps, p.T2_steps, p.burnin, p.reps)
               [] args.harness = "P3_stepResponse" ->
                    P3_stepResponse(h0, args.g, p.draws, args.algo,
                                    p.T[1], p.T[2], p.T1_steps, p.T2_steps, p.burnin, p.reps)
               [] args.harness = "P4_stepResponse" ->
                    P4_stepResponse(h0, args.g, p.draws, args.algo, args.boundary,
                                    p.T[1], p.T[2], p.T1_steps, p.T2_steps, p.burnin, p.reps)
    /\ UNCHANGED <<pgm, args>> /\ UNCHANGED progVars

SpecHarness == InitHarness /\ [][ApplyHarness]_vars

(* Program 1 with its console: besides the handlers and the timer, a call of *)
(* equilibriumProperties typed into the console between two events.  The     *)
(* harness runs to completion before any other event; it leaves the lattice, *)
(* state and temperature it ended with and does not touch the timer.  A Run  *)
(* pressed while a timer is pending and state is not 'running' would start a *)
(* second interval beside the first; the machine has one timer variable and  *)
(* is followed up to that press.                                             *)
P1_consoleEquilibriumProperties(algo, initState, T, burnin, steps, reps, draws) ==
    /\ P1Idle /\ op' = "equilibriumProperties"
    /\ \E r \in {equilibriumProperties(
                    HarnessGlobals(lattice, state, temperature, algorithm, NA, NA, NA),
                    gridSize, draws, algo, initState, T, burnin, steps, reps).after} :
          lattice' = r.lattice /\ state' = r.state /\ temperature' = r.temperature
    /\ UNCHANGED <<timer, algorithm, pc>> /\ P1Frame

TimerEscaped == pgm = "P1" /\ timer # NoTimer /\ state # "running"

InitConsole == P1_Init({MaxMicroGrid})
NextConsole ==
    \/ (P1_Next /\ ~(TimerEscaped /\ op' = "doRunButton"))
    \/ \E algo \in P1Algorithms : \E initState \in {"scrambled", "plus"} :
          \E T \in CellTemps : \E draws \in HarnessStreams :
              P1_consoleEquilibriumProperties(algo, initState, T, 0, MaxSteps, 1, draws)
SpecConsole == InitConsole /\ [][NextConsole]_vars

(* Programs 3 and 5 on the 2 x 2 lattice with the permuted and re-permuted   *)
(* sequences (and the typewriter sequence both start with): the buttons, the *)
(* sequence selector, the timers and the sweeps, at one temperature.  The    *)
(* permutations are drawn from the streams of PermutedStreams.               *)
PermutedSeqs == {"permuted", "repermuted"}
PermutedStreams == {ZeroStream, [k \in 1 .. MaxFreeDraws |-> 2]}

InitPermuted ==
    \/ P3_Init({MaxMicroGrid}, {1}, PermutedStreams)
    \/ P5_Init({MaxMicroGrid}, {1}, PermutedStreams)
NextPermuted ==
    \/ /\ pgm = "P3"
       /\ \/ P3_doRunButton
          \/ P3_doStepButton
          \/ \E I \in Lattices(gridSize) : \E free \in PermutedStreams :
                P3_doResetButton(I, free)
          \/ \E algo \in PermutedSeqs : P3_chooseAlgorithm(algo)
          \/ P3_timerTick
          \/ \E u \in Draws : \E free \in PermutedStreams : P3_sweepStep(u, free, 0, 0)
          \/ P3_sweepEnd
    \/ /\ pgm = "P5"
       /\ \/ \E u \in Draws : \E free \in PermutedStreams : P5_doMicroButton(u, free, 0, 0)
          \/ \E u \in Draws : \E free \in PermutedStreams : P5_macrostep(u, free, 0, 0)
          \/ \E u \in Draws : \E free \in PermutedStreams : P5_runForever(u, free, 0, 0)
          \/ P5_doMacroButton
          \/ P5_doRunButton
          \/ \E I \in Lattices(gridSize) : \E free \in PermutedStreams :
                P5_doResetButton(I, free)
          \/ \E kind \in PermutedSeqs : P5_chooseVisitSequence(kind)
SpecPermuted == InitPermuted /\ [][NextPermuted]_vars

RulesApplied == pgm = "fn" /\ op = "acceptanceRules"
MImpls == {"P1_M", "P2_M", "P3_M", "P3_Msim", "P4_M", "P5_M"}
MstarImpls == {"P2_Mstar", "P5_Mstar"}

\* the draw u/DrawDen lies strictly below the Boltzmann weight of (deltaE, t)
DrawBelowWeight(deltaE, t, u) == RandomLess(u, Boltzmann(deltaE, t))

(* C9: at every temperature and for every draw, each implementation of the   *)
(* M-rule flips when deltaE <= 0, each implementation of the M*-rule flips   *)
(* when deltaE < 0, and for deltaE > 0 both flip exactly when the draw is    *)
(* strictly less than the Boltzmann weight.                                  *)
C9_MetropolisDecisions ==
    RulesApplied =>
        /\ \A i \in MImpls :
              /\ (args.deltaE <= 0) => result[i]
              /\ (args.deltaE > 0) =>
                    (result[i] <=> DrawBelowWeight(args.deltaE, args.t, args.u))
        /\ \A i \in MstarImpls :
              /\ (args.deltaE < 0) => result[i]
              /\ (args.deltaE > 0) =>
                    (result[i] <=> DrawBelowWeight(args.deltaE, args.t, args.u))

\* an uphill move (deltaE = 4) accepted on a non-zero draw, and refused by
\* none of the implementations
C9_Witness ==
    /\ RulesApplied /\ args.deltaE = 4 /\ args.u > 0
    /\ \A i \in MImpls \cup MstarImpls : result[i]

(* C10: the M*-rule and the M-rule decide alike whenever deltaE # 0; at      *)
(* deltaE = 0 the M-rule flips and the M*-rule flips exactly when its draw   *)
(* is below 1/2.                                                             *)
C10_MstarVersusM ==
    RulesApplied =>
        /\ (args.deltaE # 0) =>
              /\ result.P5_Mstar = result.P5_M
              /\ result.P2_Mstar = result.P2_M
        /\ (args.deltaE = 0) =>
              /\ result.P5_M /\ result.P2_M
              /\ result.P5_Mstar <=> (2 * args.u < DrawDen)
              /\ result.P2_Mstar <=> (2 * args.u < DrawDen)

\* a neutral site the M-rule flips and the M*-rule leaves alone
C10_Witness ==
    /\ RulesApplied /\ args.deltaE = 0
    /\ result.P5_M /\ ~result.P5_Mstar /\ ~result.P2_Mstar

SweepDone == pgm = "fn" /\ op = "sweep"
ExactSequences == {"typewriter", "checkerboard", "diagonal", "boustrophedon",
                   "permuted", "repermuted"}
TimesOffered(s, site) == Cardinality({k \in 1 .. Len(s) : s[k] = site})

(* C1: one sweep of the typewriter, checkerboard, diagonal, boustrophedon,   *)
(* permuted or re-permuted sequence offers every site of the lattice exactly *)
(* once, in Program 3 and in Program 5; one sweep of the random sequence     *)
(* offers exactly N coordinates, all of them inside the lattice.             *)
C1_EachSiteOnce ==
    SweepDone =>
        LET g == args.g
            s == result
        IN  /\ Len(s) = g * g
            /\ \A k \in 1 .. Len(s) : s[k].x \in 0 .. g - 1 /\ s[k].y \in 0 .. g - 1
            /\ args.kind \in ExactSequences =>
                   \A x, y \in 0 .. g - 1 : TimesOffered(s, XY(x, y)) = 1

\* a permuted sweep of Program 5 on the 3 x 3 grid that does not start at (0, 0)
C1_Witness ==
    /\ SweepDone /\ args.prog = "P5" /\ args.kind = "permuted" /\ args.g = 3
    /\ Len(result) = 9 /\ result[1] # XY(0, 0)

TorusDone == pgm = "fn" /\ op = "calcDeltaE"
\* the lattice L moved a columns and b rows, cyclically
Shifted(L, g, a, b) ==
    [u \in 0 .. g - 1 |-> [v \in 0 .. g - 1 |-> L[(u - a + g) % g][(v - b + g) % g]]]

(* C7: on the toroidal lattice calcDeltaE is invariant under cyclic shifts:  *)
(* for every lattice L, shift (a, b) and site (x, y), calcDeltaE on L at     *)
(* (x, y) equals calcDeltaE on the shifted lattice at the shifted site       *)
(* (Programs 1 and 5).                                                       *)
C7_ShiftInvariant ==
    TorusDone =>
        LET g == args.g
            S == 0 .. g - 1
        IN  \A a, b, x, y \in S :
               LET M == Shifted(args.L, g, a, b)
                   xs == (x + a) % g
                   ys == (y + b) % g
               IN  /\ M[xs][ys] = args.L[x][y]
                   /\ calcDeltaE(M, g, xs, ys) = result.P5[x][y]
                   /\ P1_calcDeltaE(M, g, xs, ys) = result.P1[x][y]

\* a 3 x 3 lattice whose only down spin is in the top row: the site below the
\* bottom row's wrap sees it
C7_Witness ==
    /\ TorusDone /\ args.g = 3
    /\ \A x, y \in 0 .. 2 : args.L[x][y] = (IF x = 1 /\ y = 0 THEN -1 ELSE 1)
    /\ result.P5[1][2] = 4 /\ result.P1[1][2] = 4

(* C8: in Program 1 with gridSize >= 2, calc_lattice_energy() after negating *)
(* lattice[x][y] minus calc_lattice_energy() before equals calcDeltaE(x, y)  *)
(* evaluated before the flip, for every lattice and every site.              *)
C8_DeltaEIsEnergyCost ==
    (TorusDone /\ args.g >= 2) =>
        \A x, y \in 0 .. args.g - 1 :
            result.energyFlipped[x][y] - result.energy = result.P1[x][y]

\* a 3 x 3 lattice where flipping (0, 0) releases energy
C8_Witness ==
    /\ TorusDone /\ args.g = 3
    /\ result.P1[0][0] = -8
    /\ result.energyFlipped[0][0] = result.energy - 8

(* C4: under the wraparound rule of Program 4, after initialisation and      *)
(* after every microstep of runMetro or runGlauber, every non-corner halo    *)
(* cell equals the interior cell directly across the lattice.                *)
C4_WraparoundHalo ==
    (pgm = "P4" /\ boundaryRule = "wraparound") =>
        LET A == gridSize - 2
        IN  \A k \in 1 .. A :
               /\ lattice[k][0] = lattice[k][A]
               /\ lattice[k][A + 1] = lattice[k][1]
               /\ lattice[0][k] = lattice[A][k]
               /\ lattice[A + 1][k] = lattice[1][k]

(* C5: under the twisted rule of Program 4, after initialisation and after   *)
(* every accepted flip, the top and bottom halo rows mirror the opposite     *)
(* interior rows and the left and right halo columns mirror the opposite     *)
(* interior columns with the row index reversed.                             *)
C5_TwistedHalo ==
    (pgm = "P4" /\ boundaryRule = "twisted") =>
        LET A == gridSize - 2
        IN  \A k \in 1 .. A :
               /\ lattice[k][0] = lattice[k][A]
               /\ lattice[k][A + 1] = lattice[k][1]
               /\ lattice[A + 1][k] = lattice[1][(A + 1) - k]
               /\ lattice[0][k] = lattice[A][(A + 1) - k]

HaloDone == pgm = "fn" /\ op = "P4_init"
FiveValues == {-8, -4, 0, 4, 8}
\* twice the spin times the sum of the four neighbours, on the torus of side g
\* and on the haloed grid
TorusFormula(L, g, x, y) ==
    2 * L[x][y] * (L[x][(y + g - 1) % g] + L[x][(y + 1) % g]
                   + L[(x + g - 1) % g][y] + L[(x + 1) % g][y])
HaloFormula(L, x, y) ==
    2 * L[x][y] * (L[x][y - 1] + L[x][y + 1] + L[x - 1][y] + L[x + 1][y])

P5Drivers == {"doMicroButton", "macrostep", "runForever"}
\* a step of Program 5 in which a driver hands one more coordinate of the
\* running simultaneous sweep to updateSpin
P5OffersInSweep ==
    /\ pgm = "P5" /\ visitSeq = "simultaneous" /\ op' \in P5Drivers
    /\ XYiterator.i < gridSize * gridSize
    /\ XYiterator'.i = XYiterator.i + 1
\* a step of Program 3 in which runMetro_simultaneous treats one more site
P3OffersInSweep ==
    /\ pgm = "P3" /\ pc.fn = "simultaneous" /\ op' = "sweepStep"

C3_StagedFlipsCommitted ==
    [][ ( /\ pgm = "P5" /\ visitSeq = "simultaneous" /\ op' \in P5Drivers
          /\ XYiterator.i = gridSize * gridSize
          /\ XYiterator' # XYiterator )
        => lattice' = simultaneousUpdate(lattice, toBeFlippedArray, gridSize)
      ]_vars

GImpls == {"P1_G", "P2_G", "P4_G", "P5_G"}

(* C11: the Boltzmann weight of every flip decision is clamped to the        *)
(* largest finite double: for every even deltaE from -8 to 8 and every       *)
(* positive temperature, however small, it is neither infinite nor NaN, and  *)
(* neither is the ratio the G-rule compares its draw with.  No site is       *)
(* stuck: with deltaE < 0 every implementation of the M-rule and of the      *)
(* M*-rule flips on every draw, and every implementation of the G-rule       *)
(* flips on the draw 0 (and on every draw below 1/2).                        *)
C11_ClampedWeight ==
    RulesApplied =>
        /\ Boltzmann(args.deltaE, args.t).tag \in {"fin", "max"}
        /\ GRatio(Boltzmann(args.deltaE, args.t)).tag = "fin"
        /\ (args.deltaE < 0) =>
              /\ \A i \in MImpls \cup MstarImpls : result[i]
              /\ (2 * args.u < DrawDen) => \A i \in GImpls : result[i]
              /\ \E u \in Draws :
                    /\ P1_runGlauber_accepts(args.deltaE, args.t, u)
                    /\ P2_updateSpin_accepts("G_rule", args.deltaE, args.t, u)
                    /\ P4_runGlauber_accepts(args.deltaE, args.t, u)
                    /\ GRuleFn(args.deltaE, args.t, u)

\* deltaE = -8 at the cold temperature, where Math.exp overflows: the G-rule
\* flips even on the largest draw
C11_Witness ==
    /\ RulesApplied /\ args.deltaE = -8 /\ args.t = ColdTemp /\ args.u = DrawDen - 1
    /\ MathExp(args.deltaE, args.t).tag = "inf"
    /\ \A i \in GImpls \cup MImpls \cup MstarImpls : result[i]

StubDone == pgm = "fn" /\ op = "stubbedSweep"

(* C12: from the all-up lattice, with Math.random() returning 1.0 at every   *)
(* call, one sweep under the M, G or M* rule, any visitation sequence and    *)
(* any positive temperature flips no site: every site has deltaE = 8, and    *)
(* after the sweep the lattice is all up and the magnetization is exactly 1. *)
C12_StubbedSweepFlipsNothing ==
    StubDone =>
        /\ \A x, y \in 0 .. args.g - 1 :
              result.deltaE[x][y] = 8 /\ result.lattice[x][y] = 1
        /\ result.magnetization.n = result.magnetization.d
        /\ ~result.threw => result.offered = args.g * args.g

\* a complete checkerboard sweep of the 3 x 3 lattice under the G-rule at the
\* cold temperature
C12_Witness ==
    /\ StubDone /\ args.prog = "P5" /\ args.kind = "checkerboard" /\ args.rule = "G_rule"
    /\ args.g = 3 /\ args.t = ColdTemp
    /\ ~result.threw /\ result.offered = 9 /\ result.lattice = AllUp(3)

SingleDone == pgm = "fn" /\ op = "singleSweep"
\* the visits of the sweep to (1, 1), and the first of them (0 if none)
VisitsOfDown(log) == {k \in 1 .. Len(log) : log[k].x = 1 /\ log[k].y = 1}
FirstVisit(log) ==
    IF VisitsOfDown(log) = {} THEN 0
    ELSE CHOOSE k \in VisitsOfDown(log) : \A m \in VisitsOfDown(log) : k <= m
\* the neighbours of (1, 1) the sweep flipped before visit f
NeighboursFlippedBefore(log, f) ==
    {k \in 1 .. f - 1 : log[k].flip /\ <<log[k].x, log[k].y>> \in
                            {<<1, 0>>, <<1, 2>>, <<0, 1>>, <<2, 1>>}}
\* the first visit to (1, 1) is the only accepted flip of the sweep
OnlyTheDownSiteFlipped(log) ==
    /\ FirstVisit(log) > 0
    /\ \A k \in 1 .. Len(log) : log[k].flip <=> (k = FirstVisit(log))
AfterSweepAllUp ==
    /\ result.lattice = AllUp(args.g)
    /\ result.magnetization.n = result.magnetization.d
    /\ result.local_correlations.n = result.local_correlations.d

(* C13 as stated: on the 4 x 4 lattice that is all up except (1, 1), under   *)
(* the M-rule the site (1, 1) has deltaE = -8 and the sweep flips it on its  *)
(* first visit whatever the draws; if no other site is flipped the result is *)
(* the all-up lattice with magnetization 1 and local correlation 1.          *)
C13_FlippedOnFirstVisit ==
    SingleDone =>
        /\ result.deltaE = -8
        /\ FirstVisit(result.log) > 0 => result.log[FirstVisit(result.log)].flip
        /\ OnlyTheDownSiteFlipped(result.log) => AfterSweepAllUp

(* C13, amended: the site (1, 1) has deltaE = -8 on the initial lattice; at  *)
(* its first visit it is flipped whatever the draw if fewer than three of    *)
(* its neighbours were flipped earlier in the sweep, which is always so      *)
(* under the typewriter, checkerboard, diagonal and simultaneous sequences;  *)
(* if that flip is the only one of the sweep the result is the all-up        *)
(* lattice with magnetization 1 and local correlation 1.                     *)
C13_FlippedUnlessNeighboursFlipped ==
    SingleDone =>
        LET log == result.log
            f == FirstVisit(log)
        IN  /\ result.deltaE = -8
            /\ \A u \in Draws : MRuleFn(-8, args.t, u)
            /\ (f > 0 /\ log[f].deltaE <= 0) => log[f].flip
            /\ (f > 0 /\ Cardinality(NeighboursFlippedBefore(log, f)) < 3) => log[f].flip
            /\ args.kind \in {"typewriter", "checkerboard", "diagonal", "simultaneous"} =>
                  f > 0 /\ log[f].deltaE <= 0 /\ log[f].flip
            /\ OnlyTheDownSiteFlipped(log) => AfterSweepAllUp

\* a typewriter sweep whose only flip is that of (1, 1), on its sixth visit
C13_Witness ==
    /\ SingleDone /\ args.kind = "typewriter" /\ args.g = 4
    /\ FirstVisit(result.log) = 6 /\ result.log[6].deltaE = -8
    /\ OnlyTheDownSiteFlipped(result.log) /\ AfterSweepAllUp

PairDone == pgm = "fn" /\ op = "sweepPair"

(* C14: a simultaneous sweep and a typewriter sweep are not equivalent.  In  *)
(* Program 3 under the M-rule, the simultaneous sweep flips every site whose *)
(* deltaE on the starting lattice is <= 0.  From the alternating lattice of  *)
(* even side >= 4 it yields the alternating lattice negated; the typewriter  *)
(* sweep from the same lattice, at the same temperature and with the same    *)
(* draws, none of them below 1/2, yields a lattice that differs from it in   *)
(* at least one cell.                                                        *)
C14_SweepsDiffer ==
    PairDone =>
        LET g == args.g
            S == 0 .. g - 1
        IN  /\ \A x, y \in S :
                  P3_calcDeltaE(args.L, g, x, y) <= 0 =>
                      result.simultaneous[x][y] = -args.L[x][y]
            /\ (args.L = Alternating(g) /\ g % 2 = 0 /\ g >= 4) =>
                  /\ \A x, y \in S : result.simultaneous[x][y] = -args.L[x][y]
                  /\ (\A k \in 1 .. Len(args.draws) : 2 * args.draws[k] >= DrawDen) =>
                        \E x, y \in S : result.typewriter[x][y] # result.simultaneous[x][y]

\* the alternating 4 x 4 lattice with every draw 7/8: the two sweeps disagree
\* at (3, 1)
C14_Witness ==
    /\ PairDone /\ args.g = 4 /\ args.L = Alternating(4)
    /\ \A k \in 1 .. Len(args.draws) : args.draws[k] = DrawDen - 1
    /\ result.simultaneous[3][1] = -1
    /\ result.typewriter[3][1] = 1


-----------------------------------------------------------------------------
\* the interior of the lattice: the whole lattice in Programs 1, 2, 3, 5, the
\* active region inside the halo in Program 4
Interior(x, y) ==
    IF pgm = "P4" THEN x \in 1 .. gridSize - 2 /\ y \in 1 .. gridSize - 2
    ELSE x \in 0 .. gridSize - 1 /\ y \in 0 .. gridSize - 1

(* C15: once init() has run, in every state any of the programs reaches by   *)
(* run, step, microstep, macrostep, reset, the temperature slider, the       *)
(* selectors and timer ticks, every interior cell of the lattice holds -1 or *)
(* +1, and in Program 4 every halo cell holds -1, 0 or +1.                   *)
C15_CellValues ==
    pgm \in {"P1", "P2", "P3", "P4", "P5"} =>
        \A x, y \in 0 .. gridSize - 1 :
            IF Interior(x, y) THEN lattice[x][y] \in {-1, 1}
            ELSE lattice[x][y] \in {-1, 0, 1}

\* Program 4 ends a sweep under the underdog rule with an up interior, a down
\* halo cell and a zero corner
C15_Witness ==
    /\ pgm = "P4" /\ op = "updateBorderMacrostep" /\ boundaryRule = "underdog"
    /\ lattice[1][1] = 1 /\ lattice[0][1] = -1 /\ lattice[0][0] = 0


-----------------------------------------------------------------------------
\* the four corners of Program 4's grid, and the lattice L with the value v
\* put in them
Corners(A) == {XY(0, 0), XY(0, A + 1), XY(A + 1, 0), XY(A + 1, A + 1)}
CornersHold(L, A, v) == \A c \in Corners(A) : L[c.x][c.y] = v
CornersMarked(L, A, v) ==
    [L EXCEPT ![0][0] = v, ![0][A + 1] = v, ![A + 1][0] = v, ![A + 1][A + 1] = v]

(* C16: in Program 4, in every state reached after init() (sweeps, border     *)
(* refreshes, changes of boundary rule and of algorithm, reset), the four    *)
(* corner cells hold 0.  No border construction and no border update writes  *)
(* a corner: run on the lattice with a foreign value (5) in the corners,     *)
(* they leave that value there.  calcDeltaE on interior coordinates reads    *)
(* no corner: the foreign value does not change what it returns.             *)
C16_CornersStayZero ==
    pgm = "P4" =>
        LET A == gridSize - 2
            M == CornersMarked(lattice, A, 5)
        IN  /\ CornersHold(lattice, A, 0)
            /\ \A free \in BorderStreams(boundaryRule) :
                  /\ CornersHold(boundaryList(boundaryRule, M, A, free), A, 5)
                  /\ CornersHold(updateBorderMacrostep(boundaryRule, M, A, free), A, 5)
            /\ \A x, y \in 1 .. A :
                  /\ CornersHold(updateBorderMicrostep(boundaryRule, Negated(M, x, y), A, x, y),
                                 A, 5)
                  /\ P4_calcDeltaE(M, x, y) = P4_calcDeltaE(lattice, x, y)

\* a sweep under the random rule has just redrawn the border: halo cells of
\* both signs next to the corner (2, 0), which holds 0
C16_Witness ==
    /\ pgm = "P4" /\ op = "updateBorderMacrostep" /\ boundaryRule = "random"
    /\ lattice[1][0] = 1 /\ lattice[2][1] = -1
    /\ CornersHold(lattice, gridSize - 2, 0)


-----------------------------------------------------------------------------
\* the buttons that start the engine when it rests and stop it when it works
StartStopButtons == {"doRunButton", "doStepButton", "doMicroButton", "doMacroButton"}
Working == state \in {"busy", "running"}

(* C17: a press of Run, Step, Microstep or Macrostep while the state is busy *)
(* (Program 5) or running (Programs 1 to 4) starts no sweep and no          *)
(* microstep: it leaves every timer cleared and the state idle or paused,    *)
(* and the lattice, the staged flips, the position in the visitation         *)
(* sequence and the selectors are as before.                                 *)
C17_PressWhileBusyStops ==
    [][(op' \in StartStopButtons /\ Working) =>
         /\ state' = (IF pgm = "P5" THEN "idle" ELSE "paused")
         /\ IF pgm = "P5" THEN runTimer' = NoTimer /\ macrostepTimer' = NoTimer
            ELSE timer' = NoTimer
         /\ UNCHANGED <<lattice, shadowLattice, pc, XYiterator, visitedArray,
                        toBeFlippedArray, thePermutation, temperature, algorithm,
                        visitSeq, visitationFn, acceptanceFn, boundaryRule,
                        initPattern>>]_vars

\* Program 5: Microstep was pressed while busy, so the fresh iterator of the
\* sequence was not advanced (a microstep always leaves it advanced)
C17_Witness ==
    /\ pgm = "P5" /\ op = "doMicroButton" /\ state = "idle"
    /\ XYiterator.i = 0 /\ runTimer = NoTimer /\ macrostepTimer = NoTimer


-----------------------------------------------------------------------------
UnknownDone == pgm = "fn" /\ op = "selectorRequest"

(* C18: a request with a selector value outside the enumerated set (an init  *)
(* pattern, an algorithm, a visitation sequence, an acceptance rule, a       *)
(* boundary rule) ends at once in a fatal error and leaves the globals as    *)
(* they were: lattice, selector, the function bound by it, iterator, state,  *)
(* timer and drawLattice.                                                    *)
C18_UnknownSelectorFailsFast ==
    (UnknownDone /\ args.value = UnknownSelector) =>
        /\ result.threw
        /\ result.after = args.s


-----------------------------------------------------------------------------
\* the steps that are timer callbacks and the steps inside a sweep function
TimerCallbacks == {"timerTick", "macrostep", "runForever"}
SweepSteps == {"runMetro", "runGlauber", "runBatch", "sweepStep", "sweepEnd",
               "updateBorderMacrostep"}
TimersOff ==
    IF pgm = "P5" THEN runTimer = NoTimer /\ macrostepTimer = NoTimer
    ELSE timer = NoTimer
SweepUnderWay == pgm # "P5" /\ pc.fn # "none"

(* C19: a stop (Run, Step, Microstep or Macrostep pressed while busy or      *)
(* running) and a Reset are handled between timer callbacks, never inside a  *)
(* sweep function, and leave every timer cleared and the state not busy.     *)
(* While the state is not busy no timer callback runs; the state becomes     *)
(* busy again only by Run or Macrostep, and outside a timer callback a sweep *)
(* begins only by Step.  Reset also hands the lattice over to init(): all +1 *)
(* or all -1 under Program 5's patterns init-up and init-down, the sweep     *)
(* position at the start.                                                    *)
C19_StopAndResetCancelTicks ==
    [][/\ ((op' \in StartStopButtons /\ Working) \/ op' = "doResetButton") =>
             /\ ~SweepUnderWay
             /\ TimersOff' /\ ~Working' /\ ~SweepUnderWay'
       /\ ~Working => TimersOff
       /\ op' \in TimerCallbacks => (Working /\ ~TimersOff)
       /\ (Working' /\ ~Working) => op' \in {"doRunButton", "doMacroButton"}
       /\ (SweepUnderWay' /\ ~SweepUnderWay) =>
             (op' = "timerTick" \/ (op' = "doStepButton" /\ ~Working))
       /\ op' \in SweepSteps => SweepUnderWay
       /\ (op' = "doResetButton" /\ pgm = "P5") =>
             /\ XYiterator'.i = 0 /\ visitedArray' = Cleared(gridSize)
             /\ toBeFlippedArray' = Cleared(gridSize)
             /\ initPattern = "init-up" => lattice' = AllUp(gridSize)
             /\ initPattern = "init-down" =>
                   \A x, y \in 0 .. gridSize - 1 : lattice'[x][y] = -1]_vars

\* Program 5: Macrostep was pressed while a sweep was under way (from idle it
\* would have left the state busy); the iterator stays where the sweep left it
C19_Witness ==
    /\ pgm = "P5" /\ op = "doMacroButton" /\ state = "idle"
    /\ XYiterator.i = 1 /\ TimersOff


-----------------------------------------------------------------------------
\* the handlers of the selectors of the visitation order
VisitSelectors == {"chooseVisitSequence", "chooseVisitationFn", "chooseAlgorithm"}

(* C20: a change of one selector resets neither the lattice nor the other    *)
(* selectors.  chooseAcceptanceFn (Programs 2, 5) leaves the lattice, the    *)
(* temperature, the visitation selector and the sweep position (iterator,    *)
(* visited and staged marks) as they were; chooseVisitSequence (Program 5),  *)
(* chooseVisitationFn (Program 2) and chooseAlgorithm (Programs 1, 3, 4)     *)
(* leave the lattice, the temperature, the acceptance rule and the other     *)
(* selectors as they were; chooseBoundary (Program 4) leaves the             *)
(* temperature, the algorithm, every interior cell and the corners as they   *)
(* were, so that it rewrites halo cells only.                                *)
C20_SelectorsAreIndependent ==
    [][/\ op' = "chooseAcceptanceFn" =>
             UNCHANGED <<lattice, shadowLattice, temperature, visitSeq, visitationFn,
                         algorithm, boundaryRule, initPattern, XYiterator, pc,
                         visitedArray, toBeFlippedArray, thePermutation>>
       /\ op' \in VisitSelectors =>
             UNCHANGED <<lattice, shadowLattice, temperature, acceptanceFn, boundaryRule,
                         initPattern, thePermutation>>
       /\ op' = "chooseBoundary" =>
             /\ UNCHANGED <<temperature, algorithm>>
             /\ \A x, y \in 0 .. gridSize - 1 :
                   (Interior(x, y) \/ XY(x, y) \in Corners(gridSize - 2)) =>
                       lattice'[x][y] = lattice[x][y]]_vars

\* Program 4, running, has just been switched to the down rule: the halo is
\* rewritten around an interior that is still up
C20_Witness ==
    /\ pgm = "P4" /\ op = "chooseBoundary" /\ boundaryRule = "down" /\ state = "running"
    /\ lattice[1][1] = 1 /\ lattice[0][1] = -1 /\ lattice[0][0] = 0

-----------------------------------------------------------------------------
HarnessDone == pgm = "fn" /\ op = "harness"

\* the positions in the log of the events of kind e of repetition rep
EventsOf(log, e, rep) == {k \in 1 .. Len(log) : log[k].e = e /\ log[k].rep = rep}

(* C21: every measurement harness calls init() at the start of each of its   *)
(* repetitions: for every repetition 1 .. reps the log of the run holds a    *)
(* call of init made in that repetition, ahead of every sweep of the         *)
(* repetition.                                                               *)
C21_EveryRepetitionReinitialises ==
    HarnessDone =>
        \A rep \in 1 .. args.p.reps :
            \E k \in EventsOf(result.log, "init", rep) :
                \A m \in EventsOf(result.log, "sweep", rep) : k < m


StepHarnesses == {"temperatureStep", "P2_stepResponse", "P3_stepResponse", "P4_stepResponse"}
SweepsOf(log, rep) == SelectSeq(log, LAMBDA ev : ev.e = "sweep" /\ ev.rep = rep)
\* the sum over the repetitions of |M| * N after recorded sweep j
SlotSum(log, reps, burnin, j) ==
    SumSeq([rep \in 1 .. reps |-> SweepsOf(log, rep)[burnin + j].absM], 1)

(* C22: in the temperature-step harnesses every repetition runs burnin       *)
(* sweeps at T1 that are added to no entry, then T1_steps sweeps at T1 added *)
(* to the entries 1 .. T1_steps, then T2_steps sweeps at T2 added to the     *)
(* entries T1_steps + 1 ..; no sweep runs outside the repetitions; the       *)
(* series has T1_steps + T2_steps entries and entry j is the sum over the    *)
(* repetitions of |M| after recorded sweep j, divided by reps.               *)
C22_StepProtocol ==
    HarnessDone /\ args.harness \in StepHarnesses =>
        LET p == args.p
            N == args.g * args.g
        IN  /\ Len(result.series) = p.T1_steps + p.T2_steps
            /\ SweepsOf(result.log, 0) = << >>
            /\ \A rep \in 1 .. p.reps :
                  LET s == SweepsOf(result.log, rep)
                  IN  /\ Len(s) = p.burnin + p.T1_steps + p.T2_steps
                      /\ \A k \in 1 .. Len(s) :
                            /\ s[k].slot = IF k <= p.burnin THEN 0 ELSE k - p.burnin
                            /\ s[k].T = IF k <= p.burnin + p.T1_steps THEN p.T[1] ELSE p.T[2]
            /\ \A j \in 1 .. Len(result.series) :
                  result.series[j] = Fin(SlotSum(result.log, p.reps, p.burnin, j), N * p.reps)

\* two repetitions with a burn-in, two sweeps at T1 and one at T2, whose
\* recorded series is not constant
C22_Witness ==
    /\ HarnessDone /\ args.harness = "P3_stepResponse"
    /\ args.p.reps = 2 /\ args.p.burnin = 1 /\ args.p.T1_steps = 2 /\ args.p.T2_steps = 1
    /\ result.series[1] # result.series[3]


(* C23: from the start of a harness to its end nothing is painted: no call   *)
(* of init, of a sweep function or of a border construction reaches a        *)
(* function that draws on the canvas, and drawLattice and drawBorder are     *)
(* bound to their original functions when the harness has ended.             *)
C23_NoRendering ==
    HarnessDone =>
        /\ \A k \in 1 .. Len(result.log) : result.log[k].paints = {}
        /\ result.after.drawLattice = args.before.drawLattice
        /\ result.after.drawBorder = args.before.drawBorder


(* C24: equilibriumProperties called with fewer than two recorded sweeps     *)
(* (steps = 0 or steps = 1) ends without an uncaught exception and does not  *)
(* return NaN as the standard deviation.                                     *)
C24_DegenerateGuarded ==
    HarnessDone /\ args.harness = "equilibriumProperties" /\ args.steps < 2 =>
        /\ ~result.threw
        /\ result.returned.M_sdev # NaN


\* the positions of the halo of a lattice of side G, corners included, and
\* those of its active region
HaloPositions(G) == {p \in (0 .. G - 1) \X (0 .. G - 1) : p[1] \in {0, G - 1} \/ p[2] \in {0, G - 1}}
ActivePositions(G) == ((0 .. G - 1) \X (0 .. G - 1)) \ HaloPositions(G)
RingPositions(G) == {<<genBorderXYs(G - 2)[k].x, genBorderXYs(G - 2)[k].y>> : k \in 1 .. 4 * (G - 2)}
StaticRules == {"zero", "up", "down"}
SweepRules == {"random", "sampled", "underdog"}

(* C25: in Program 4, in every step but a border construction asked for by   *)
(* chooseBoundary or by init: under zero, up and down no halo cell changes;  *)
(* under random, sampled and underdog no halo cell changes while the sites   *)
(* of a sweep are treated, and the step after the last site, and only that   *)
(* one, leaves every cell of the ring with a value the rule gives it (a      *)
(* spin, the spin of an active site, the opposite of the spin of an active   *)
(* site) and the active region as it was; under wraparound and twisted a     *)
(* halo cell changes only in a step of a sweep in which a site on the edge   *)
(* of the active region was flipped.                                         *)
C25_HaloCadence ==
    [][pgm = "P4" /\ op' \notin {"chooseBoundary", "doResetButton"} =>
        LET G == gridSize
            changed == {p \in HaloPositions(G) : lattice'[p[1]][p[2]] # lattice[p[1]][p[2]]}
            flipped == {p \in ActivePositions(G) : lattice'[p[1]][p[2]] # lattice[p[1]][p[2]]}
            onEdge(p) == p[1] \in {1, G - 2} \/ p[2] \in {1, G - 2}
        IN  /\ boundaryRule \in StaticRules => changed = {}
            /\ boundaryRule \in SweepRules =>
                  /\ op' # "updateBorderMacrostep" => changed = {}
                  /\ op' = "updateBorderMacrostep" =>
                        /\ pc.i = (G - 2) * (G - 2) /\ pc'.fn = "none" /\ flipped = {}
                        /\ \A p \in RingPositions(G) :
                              CASE boundaryRule = "random" -> lattice'[p[1]][p[2]] \in {-1, 1}
                                [] boundaryRule = "sampled" ->
                                      \E q \in ActivePositions(G) :
                                          lattice'[p[1]][p[2]] = lattice'[q[1]][q[2]]
                                [] boundaryRule = "underdog" ->
                                      \E q \in ActivePositions(G) :
                                          lattice'[p[1]][p[2]] = 0 - lattice'[q[1]][q[2]]
            /\ boundaryRule \in MirrorRules =>
                  (changed # {} => /\ op' \in {"runMetro", "runGlauber"}
                                   /\ \E p \in flipped : onEdge(p))
    ]_vars

\* a sweep under the underdog rule has ended and the ring holds the opposite
\* of the only active site, which the sweep flipped to -1
C25_Witness ==
    /\ pgm = "P4" /\ op = "updateBorderMacrostep" /\ boundaryRule = "underdog"
    /\ gridSize = 3 /\ lattice[1][1] = -1 /\ lattice[0][1] = 1


SweepEvents(log) == {k \in 1 .. Len(log) : log[k].e = "sweep"}

(* C26: a harness sweeps with the configuration its arguments name: every    *)
(* sweep of stepResponse(visitFn, acceptFn, ..) of Program 2 runs with the   *)
(* visitation visitFn and the acceptance rule acceptFn, every sweep of       *)
(* stepResponse(algo, boundary, ..) of Program 4 is a sweep of the algorithm *)
(* algo under the boundary rule boundary, whatever the selectors held before *)
(* the call.                                                                 *)
C26_RunsItsArguments ==
    HarnessDone =>
        /\ args.harness = "P2_stepResponse" =>
              \A k \in SweepEvents(result.log) :
                  /\ result.log[k].visit = args.visitFn
                  /\ result.log[k].accept = args.acceptFn
        /\ args.harness = "P4_stepResponse" =>
              \A k \in SweepEvents(result.log) :
                  /\ result.log[k].fn = (IF args.algo = "metropolis" THEN "runMetro"
                                         ELSE "runGlauber")
                  /\ result.log[k].rule = args.boundary


\* the coordinates macrostep will process before XYiterator.next() reports
\* done: a generator of Program 5 yields N coordinates in all
CoordinatesLeft(it, g) == g * g - it.i

(* C27: in Program 5 a Macrostep command issued while idle processes exactly *)
(* N coordinates before the engine is idle again: when doMacroButton has set *)
(* the engine busy, the iterator the macrostep timer will read has all its N *)
(* coordinates left, whatever commands came before.                          *)
C27_MacrostepProcessesN ==
    pgm = "P5" /\ op = "doMacroButton" /\ state = "busy" =>
        CoordinatesLeft(XYiterator, gridSize) = gridSize * gridSize


MacrostepStarted == pgm = "P5" /\ op = "doMacroButton" /\ state = "busy"
MacrostepEnded ==
    /\ state = "idle" /\ macrostepTimer = NoTimer
    /\ visitedArray = Cleared(gridSize)
    /\ XYiterator = P5_newIterator(visitSeq)
\* a command arrived after the Macrostep command: the last step is neither
\* that command nor a tick of its timer
CommandArrived == ~MacrostepStarted /\ op # "macrostep"

(* C28: in Program 5, when Macrostep has been pressed while idle, the        *)
(* macrostep timer firing fairly, the engine is eventually idle with the     *)
(* macrostep timer cleared, visitedArray cleared and a fresh iterator        *)
(* installed, unless another command arrives first; every tick either        *)
(* takes one more of the at most N coordinates of the iterator and leaves    *)
(* the engine busy, or reaches that end, so the end comes within N + 1       *)
(* ticks.                                                                    *)
C28_MacrostepTerminates ==
    /\ MacrostepStarted ~> (MacrostepEnded \/ CommandArrived)
    /\ [][pgm = "P5" /\ op' = "macrostep" =>
            \/ /\ XYiterator.i < gridSize * gridSize
               /\ XYiterator' = [XYiterator EXCEPT !.i = @ + 1]
               /\ state' = state /\ macrostepTimer' = macrostepTimer
            \/ /\ XYiterator.i = gridSize * gridSize
               /\ MacrostepEnded']_vars

\* the tick that ended a macrostep
C28_Witness ==
    pgm = "P5" /\ op = "macrostep" /\ MacrostepEnded


TimerPending == timer # NoTimer

(* C29: in every reachable state of every program at most one sweep timer is *)
(* pending, and one is pending exactly when the engine is running (Programs  *)
(* 1 to 4) or busy (Program 5); in Program 5 the run timer and the macrostep *)
(* timer are never pending together and state is idle or busy.               *)
C29_TimerIffRunning ==
    /\ pgm \in {"P1", "P2", "P3", "P4"} => (TimerPending <=> state = "running")
    /\ pgm = "P5" =>
          /\ state \in {"idle", "busy"}
          /\ ~(runTimer # NoTimer /\ macrostepTimer # NoTimer)
          /\ (runTimer # NoTimer \/ macrostepTimer # NoTimer) <=> state = "busy"


\* the coordinates the installed generator has offered so far, for the
\* sequences that do not draw them at random
OfferedThisSweep ==
    {nextXYgen(XYiterator.kind, gridSize, thePermutation, ZeroStream)[k] :
        k \in 1 .. XYiterator.i}

(* C30: in Program 5, in every reachable state, visitedArray[x][y] is true   *)
(* exactly for the coordinates the visitation sequence has offered during    *)
(* the current sweep; in particular it is all false when a sweep starts,     *)
(* also when the sweep starts because the visitation mode was changed.       *)
C30_VisitedIsExact ==
    pgm = "P5" /\ XYiterator.kind \in SimulSeqs =>
        \A x, y \in 0 .. gridSize - 1 :
            visitedArray[x][y] <=> XY(x, y) \in OfferedThisSweep


(* C31: in Program 5 toBeFlippedArray is all false whenever a sweep begins,  *)
(* that is in every state in which the installed generator has offered no    *)
(* coordinate yet, whatever commands came before; the commit at the end of a *)
(* simultaneous sweep then inverts exactly the sites staged in that sweep.   *)
C31_StagingStartsEmpty ==
    pgm = "P5" /\ XYiterator.i = 0 => toBeFlippedArray = Cleared(gridSize)


\* lattices L and M agree everywhere except perhaps at site c
SameButAt(L, M, g, c) ==
    \A x, y \in 0 .. g - 1 : XY(x, y) # c => M[x][y] = L[x][y]

\* the site the k-th entry of thePermutation stands for
PermutedSite(k) == CoordOf(thePermutation[k], gridSize)

(* C32: in permuted mode the visiting order is fixed between resets: only a  *)
(* reset (doResetButton, chooseInitPattern: init) writes thePermutation; the *)
(* k-th site every permuted sweep of Programs 3 and 5 treats is the one the  *)
(* k-th entry of thePermutation stands for, so that two sweeps with no reset *)
(* between them offer the sites in the same order; and the steps of a        *)
(* re-permuted sweep leave thePermutation as it is.                          *)
C32_PermutationFixed ==
    [][/\ op' \notin {"doResetButton", "chooseInitPattern"}
            => thePermutation' = thePermutation
       /\ pgm = "P3" /\ op' = "sweepStep" /\ pc.fn = "permuted"
            => SameButAt(lattice, lattice', gridSize, PermutedSite(pc'.i))
       /\ (/\ pgm = "P5" /\ op' \in {"doMicroButton", "macrostep", "runForever"}
           /\ XYiterator'.kind = "permuted"
           /\ XYiterator'.i >= 1 /\ XYiterator'.i # XYiterator.i)
            => /\ visitedArray'[PermutedSite(XYiterator'.i).x][PermutedSite(XYiterator'.i).y]
               /\ SameButAt(lattice, lattice', gridSize, PermutedSite(XYiterator'.i))]_vars

\* a permuted sweep over a permutation other than the identity has treated
\* its second site, in Program 3 or in Program 5
C32_Witness ==
    /\ thePermutation # <<0, 1, 2, 3>>
    /\ \/ pgm = "P3" /\ op = "sweepStep" /\ pc.fn = "permuted" /\ pc.i = 2
       \/ /\ pgm = "P5" /\ op = "runForever" /\ XYiterator.kind = "permuted"
          /\ XYiterator.i = 2 /\ visitedArray # Cleared(gridSize)


\* the sites of the lattice of side g
SitesOf(g) == {XY(x, y) : x, y \in 0 .. g - 1}

Adjacent(a, b) ==
    \/ a.x = b.x /\ a.y - b.y \in {-1, 1}
    \/ a.y = b.y /\ a.x - b.x \in {-1, 1}

(* C34: the boustrophedon sequence of Program 3 starts at (0,0), goes along  *)
(* the even rows y with x rising and along the odd rows with x falling, and  *)
(* makes no carriage return: any two coordinates emitted one after the other *)
(* are neighbours on the lattice.                                            *)
C34_Boustrophedon ==
    pgm = "fn" /\ op = "sweep" /\ args.prog = "P3" /\ args.kind = "boustrophedon" =>
        LET g == args.g
        IN  /\ Len(result) = g * g
            /\ result[1] = XY(0, 0)
            /\ \A k \in 1 .. g * g :
                  LET y == (k - 1) \div g
                      c == (k - 1) % g
                  IN  result[k] = XY(IF y % 2 = 0 THEN c ELSE g - 1 - c, y)
            /\ \A k \in 1 .. g * g - 1 : Adjacent(result[k], result[k + 1])

\* the boustrophedon sequence on the largest lattice: it has turned at the
\* end of the first row
C34_Witness ==
    /\ pgm = "fn" /\ op = "sweep" /\ args.prog = "P3" /\ args.kind = "boustrophedon"
    /\ args.g = MaxSeqGrid
    /\ result[MaxSeqGrid + 1] = XY(MaxSeqGrid - 1, 1)


\* the first and the last position at which the sequence s holds a site of
\* anti-diagonal d
FirstOn(s, d) == CHOOSE k \in 1 .. Len(s) :
                    /\ s[k].x + s[k].y = d
                    /\ \A j \in 1 .. k - 1 : s[j].x + s[j].y # d
LastOn(s, d) == CHOOSE k \in 1 .. Len(s) :
                    /\ s[k].x + s[k].y = d
                    /\ \A j \in k + 1 .. Len(s) : s[j].x + s[j].y # d

\* x rises (1) or falls (-1) along anti-diagonal d of the sequence s, or the
\* anti-diagonal has one site only (0)
DirectionOn(s, d) ==
    IF s[LastOn(s, d)].x > s[FirstOn(s, d)].x THEN 1
    ELSE IF s[LastOn(s, d)].x < s[FirstOn(s, d)].x THEN -1 ELSE 0

\* the diagonal sequences of Programs 3 and 5
DiagonalSweep == pgm = "fn" /\ op = "sweep" /\ args.kind = "diagonal"

\* the sequence starts at the corner, holds every site once and emits the
\* sites with x + y = d before any site with x + y = d + 1
AlongAntiDiagonals(s, g) ==
    /\ Len(s) = g * g
    /\ s[1] = XY(0, 0)
    /\ \A c \in SitesOf(g) : \E k \in 1 .. Len(s) : s[k] = c
    /\ \A k \in 1 .. Len(s) - 1 : s[k].x + s[k].y <= s[k + 1].x + s[k + 1].y

(* C35 as stated: the diagonal sequence starts at the corner (0,0), proceeds *)
(* along successive anti-diagonals (all sites with x+y = d before any site   *)
(* with x+y = d+1) and snakes from one diagonal to the next: consecutive     *)
(* anti-diagonals are traversed in opposite directions.                      *)
C35_DiagonalSnakes ==
    DiagonalSweep =>
        /\ AlongAntiDiagonals(result, args.g)
        /\ \A d \in 0 .. 2 * args.g - 3 :
              DirectionOn(result, d) # 0 /\ DirectionOn(result, d + 1) # 0
                  => DirectionOn(result, d) # DirectionOn(result, d + 1)

(* C35, amended: the diagonal sequence starts at the corner (0,0) and        *)
(* proceeds along successive anti-diagonals (all sites with x+y = d before   *)
(* any site with x+y = d+1); every anti-diagonal is traversed in the same    *)
(* direction, x rising and y falling by one from site to site, and the       *)
(* sequence jumps from the end of one anti-diagonal to the far end of the    *)
(* next.                                                                     *)
C35_DiagonalOneWay ==
    DiagonalSweep =>
        /\ AlongAntiDiagonals(result, args.g)
        /\ \A k \in 1 .. Len(result) - 1 :
              IF result[k].x + result[k].y = result[k + 1].x + result[k + 1].y
              THEN /\ result[k + 1].x = result[k].x + 1
                   /\ result[k + 1].y = result[k].y - 1
              ELSE /\ result[k + 1].x + result[k + 1].y = result[k].x + result[k].y + 1
                   /\ result[k + 1].x <= result[k].x
        /\ \A d \in 0 .. 2 * args.g - 2 : DirectionOn(result, d) >= 0

\* the diagonal sequence on the 3 x 3 lattice: the anti-diagonals 1 and 2,
\* of two and of three sites, are both traversed with x rising
C35_Witness ==
    /\ DiagonalSweep /\ args.g = 3
    /\ DirectionOn(result, 1) = 1 /\ DirectionOn(result, 2) = 1


(* C36: Program 4 under the wraparound rule emulates the torus: from the     *)
(* same interior spins and with the same draws, the runMetro sweeps of       *)
(* Program 4 under wraparound and of Program 1 visit the same sites in the   *)
(* same order, compute the same deltaE at every visit and end with the same  *)
(* interior, for every number of consecutive sweeps.                         *)
C36_WraparoundEmulatesTorus ==
    pgm = "fn" /\ op = "runMetro" /\ args.fn = "emulate" => result.P4 = result.P1


(* C37: temperatureStep of Program 1, called with valid arguments (a known   *)
(* algo and initState, reps >= 1, T1_steps + T2_steps >= 1 and a multiple of *)
(* glom, here glom = 1), runs to completion without raising an error and     *)
(* delivers the local-correlation series and the magnetization series to the *)
(* output.                                                                   *)
C37_TemperatureStepCompletes ==
    /\ HarnessDone /\ args.harness = "temperatureStep"
    /\ args.p.reps >= 1 /\ args.p.T1_steps + args.p.T2_steps >= 1
    => ~result.threw

=============================================================================
